---------------------------- MODULE Spec2Model ----------------------------
(***************************************************************************)
(* The Mars health computer (packages/health-computer) as a state machine. *)
(*                                                                         *)
(* The engine is a pure function library over a snapshot, the              *)
(* HealthComputer struct.  The state holds one snapshot (hc), the last     *)
(* entry point called on it (call) and what that call returned (ret).      *)
(* Init draws the snapshot from a bounded set; every action is one entry   *)
(* point applied to the snapshot.                                          *)
(*                                                                         *)
(* Numbers.  Uint128 is a natural number.  Decimal is its atomics, a       *)
(* natural number scaled by DECIMAL_FRACTIONAL (10^18 in cosmwasm_std,     *)
(* 10^DecimalPlaces here: the rounding of every operation is kept, the     *)
(* precision is the bound).  SignedDecimal {negative, abs} is a signed     *)
(* integer of atomics; its field .abs is Abs().                            *)
(***************************************************************************)
EXTENDS Integers, Sequences, FiniteSets, TLC

VARIABLES hc, call, ret, account_nft, perps_contract, scope

vars == <<hc, call, ret, account_nft, perps_contract, scope>>

---------------------------------------------------------------------------
(* Bounds *)

\* Fractional digits of Decimal in the model.
DecimalPlaces == 1

\* Largest amount of the finely enumerated deposit.
MaxAmount == 20

---------------------------------------------------------------------------
(* Decimal, Uint128 and SignedDecimal arithmetic *)

RECURSIVE Pow10(_)
Pow10(n) == IF n = 0 THEN 1 ELSE 10 * Pow10(n - 1)

DECIMAL_FRACTIONAL == Pow10(DecimalPlaces)

\* Decimal::from_str of n/d, for the parameter values of the snapshots.
Dec(n, d) == (n * DECIMAL_FRACTIONAL) \div d

DecimalOne == DECIMAL_FRACTIONAL

Abs(x) == IF x < 0 THEN -x ELSE x

Sign(x) == IF x < 0 THEN -1 ELSE 1

Min(a, b) == IF a <= b THEN a ELSE b

None == <<>>

Some(x) == <<x>>

Ok(v) == [ok |-> TRUE, v |-> v]

OkVia(v, branch) == [ok |-> TRUE, v |-> v, branch |-> branch]

Err(kind, what) == [ok |-> FALSE, err |-> kind, on |-> what]

\* The ? operator: the rest of the computation on an Ok value, the error
\* returned at once otherwise.
Then(r, F(_)) == IF r.ok THEN F(r.v) ELSE r

\* Uint128::checked_mul_floor(Decimal)
checked_mul_floor(amount, dec) == (amount * dec) \div DECIMAL_FRACTIONAL

\* checked_mul_ceil rounding down instead of up.
checked_mul_ceil_rounding_down(amount, dec) ==
    (amount * dec) \div DECIMAL_FRACTIONAL

\* Uint128::checked_mul_ceil(Decimal)
checked_mul_ceil(amount, dec) ==
    (amount * dec + DECIMAL_FRACTIONAL - 1) \div DECIMAL_FRACTIONAL

\* Uint128::checked_div_floor(Decimal); the caller tests dec = 0 first.
checked_div_floor(amount, dec) == (amount * DECIMAL_FRACTIONAL) \div dec

\* Decimal::checked_mul
DecimalMul(a, b) == (a * b) \div DECIMAL_FRACTIONAL

\* Decimal::checked_from_ratio; the caller tests d = 0 first.
checked_from_ratio(n, d) == (n * DECIMAL_FRACTIONAL) \div d

\* Decimal::to_uint_floor
to_uint_floor(dec) == dec \div DECIMAL_FRACTIONAL

\* SignedDecimal::from(Uint128)
SignedFromUint(u) == u * DECIMAL_FRACTIONAL

\* SignedDecimal::checked_mul: the magnitudes multiplied as Decimals, the
\* signs combined.
SignedMul(a, b) ==
    Sign(a) * Sign(b) * ((Abs(a) * Abs(b)) \div DECIMAL_FRACTIONAL)

\* SignedDecimal::checked_div; the caller tests b = 0 first.
SignedDiv(a, b) ==
    Sign(a) * Sign(b) * ((Abs(a) * DECIMAL_FRACTIONAL) \div Abs(b))

\* SignedDecimal::floor: the magnitude floored to a whole number, the sign
\* kept.  The negative perp values of the snapshots are whole numbers, for
\* which every rounding direction gives the same result.
SignedFloor(a) ==
    Sign(a) * ((Abs(a) \div DECIMAL_FRACTIONAL) * DECIMAL_FRACTIONAL)

---------------------------------------------------------------------------
(* Parameter lookups *)

\* get_coin_max_ltv without the de-listing test.
get_coin_max_ltv_ungated(h, denom) ==
    IF denom \notin DOMAIN h.asset_params
    THEN Err("MissingAssetParams", denom)
    ELSE IF h.kind = "Default"
    THEN Ok(h.asset_params[denom].max_loan_to_value)
    ELSE IF h.asset_params[denom].hls = None
    THEN Err("MissingHLSParams", denom)
    ELSE Ok(h.asset_params[denom].hls[1].max_loan_to_value)

\* get_coin_max_ltv: zero for a de-listed coin, else the active max LTV.
get_coin_max_ltv(h, denom) ==
    IF denom \notin DOMAIN h.asset_params
    THEN Err("MissingAssetParams", denom)
    ELSE LET params == h.asset_params[denom] IN
         IF ~params.whitelisted THEN Ok(0)
         ELSE IF h.kind = "Default" THEN Ok(params.max_loan_to_value)
         ELSE IF params.hls = None THEN Err("MissingHLSParams", denom)
         ELSE Ok(params.hls[1].max_loan_to_value)

get_liquidation_ltv(h, denom) ==
    IF denom \notin DOMAIN h.asset_params
    THEN Err("MissingAssetParams", denom)
    ELSE Ok(h.asset_params[denom].liquidation_threshold)

get_perp_max_ltv(h, denom) ==
    IF denom \notin DOMAIN h.perps_data.params
    THEN Err("MissingPerpParams", denom)
    ELSE IF denom \notin DOMAIN h.perps_data.denom_states
    THEN Err("MissingDenomState", denom)
    ELSE IF ~h.perps_data.denom_states[denom].enabled THEN Ok(0)
    ELSE Ok(h.perps_data.params[denom].max_loan_to_value)

get_perp_liq_ltv(h, denom) ==
    IF denom \notin DOMAIN h.perps_data.params
    THEN Err("MissingPerpParams", denom)
    ELSE IF denom \notin DOMAIN h.perps_data.denom_states
    THEN Err("MissingDenomState", denom)
    ELSE IF ~h.perps_data.denom_states[denom].enabled THEN Ok(0)
    ELSE Ok(h.perps_data.params[denom].liquidation_threshold)

\* The first coin of the list with the denom, as Iterator::find.
RECURSIVE FindAmountFrom(_, _, _)
FindAmountFrom(coins, denom, i) ==
    IF i > Len(coins) THEN 0
    ELSE IF coins[i].denom = denom THEN coins[i].amount
    ELSE FindAmountFrom(coins, denom, i + 1)

\* get_coin_from_deposits_and_lends without the lent amount.
get_coin_from_deposits_only(h, denom) ==
    [denom |-> denom,
     amount |-> FindAmountFrom(h.positions.deposits, denom, 1)]

get_coin_from_deposits_and_lends(h, denom) ==
    [denom |-> denom,
     amount |-> FindAmountFrom(h.positions.deposits, denom, 1)
                + FindAmountFrom(h.positions.lends, denom, 1)]

---------------------------------------------------------------------------
(* Collateral and debt valuation *)

ZeroCollateral ==
    [total_collateral_value |-> 0,
     max_ltv_adjusted_collateral |-> 0,
     liquidation_threshold_adjusted_collateral |-> 0]

\* The sums of total_collateral_value with the max-LTV sum taking the
\* total value of its second term.
AddCollateral_total_for_max_ltv(a, b) ==
    [total_collateral_value |->
        a.total_collateral_value + b.total_collateral_value,
     max_ltv_adjusted_collateral |->
        a.max_ltv_adjusted_collateral + b.total_collateral_value,
     liquidation_threshold_adjusted_collateral |->
        a.liquidation_threshold_adjusted_collateral
        + b.liquidation_threshold_adjusted_collateral]

AddCollateral(a, b) ==
    [total_collateral_value |->
        a.total_collateral_value + b.total_collateral_value,
     max_ltv_adjusted_collateral |->
        a.max_ltv_adjusted_collateral + b.max_ltv_adjusted_collateral,
     liquidation_threshold_adjusted_collateral |->
        a.liquidation_threshold_adjusted_collateral
        + b.liquidation_threshold_adjusted_collateral]

\* One iteration of the loop of coins_value: the coin's three values.
coin_value(h, c) ==
    IF c.denom \notin DOMAIN h.oracle_prices
    THEN Err("MissingPrice", c.denom)
    ELSE IF c.denom \notin DOMAIN h.asset_params
    THEN Err("MissingAssetParams", c.denom)
    ELSE Then(get_coin_max_ltv(h, c.denom), LAMBDA checked_max_ltv :
         LET value == checked_mul_floor(c.amount, h.oracle_prices[c.denom])
             params == h.asset_params[c.denom]
         IN IF h.kind # "Default" /\ params.hls = None
            THEN Err("MissingHLSParams", c.denom)
            ELSE LET checked_liquidation_threshold ==
                         IF h.kind = "Default"
                         THEN params.liquidation_threshold
                         ELSE params.hls[1].liquidation_threshold
                 IN Ok([total_collateral_value |-> value,
                        max_ltv_adjusted_collateral |->
                            checked_mul_floor(value, checked_max_ltv),
                        liquidation_threshold_adjusted_collateral |->
                            checked_mul_floor(value,
                                              checked_liquidation_threshold)]))

RECURSIVE coins_value_from(_, _, _, _)
coins_value_from(h, coins, i, acc) ==
    IF i > Len(coins) THEN Ok(acc)
    ELSE Then(coin_value(h, coins[i]), LAMBDA one :
              coins_value_from(h, coins, i + 1, AddCollateral(acc, one)))

coins_value(h, coins) == coins_value_from(h, coins, 1, ZeroCollateral)

\* One iteration of the loop of vaults_value: the vault coin, then the
\* unlocking base coin as a plain coin.
vault_value(h, v) ==
    IF v.address \notin DOMAIN h.vaults_data.vault_values
    THEN Err("MissingVaultValues", v.address)
    ELSE IF v.address \notin DOMAIN h.vaults_data.vault_configs
    THEN Err("MissingVaultConfig", v.address)
    ELSE LET values == h.vaults_data.vault_values[v.address]
             config == h.vaults_data.vault_configs[v.address]
         IN
         IF values.base_coin_denom \notin DOMAIN h.asset_params
         THEN Err("MissingAssetParams", values.base_coin_denom)
         ELSE
         LET base_params == h.asset_params[values.base_coin_denom]
             gated == config.whitelisted /\ base_params.whitelisted
         IN
         IF h.kind # "Default" /\ config.hls = None
         THEN Err("MissingHLSParams", v.address)
         ELSE
         LET checked_vault_max_ltv ==
                 IF ~gated THEN 0
                 ELSE IF h.kind = "Default" THEN config.max_loan_to_value
                 ELSE config.hls[1].max_loan_to_value
             checked_liquidation_threshold ==
                 IF h.kind = "Default" THEN config.liquidation_threshold
                 ELSE config.hls[1].liquidation_threshold
             vault_coin ==
                 [total_collateral_value |-> values.vault_coin_value,
                  max_ltv_adjusted_collateral |->
                      checked_mul_floor(values.vault_coin_value,
                                        checked_vault_max_ltv),
                  liquidation_threshold_adjusted_collateral |->
                      checked_mul_floor(values.vault_coin_value,
                                        checked_liquidation_threshold)]
         IN Then(coins_value(h, <<[denom |-> values.base_coin_denom,
                                   amount |-> v.unlocking]>>),
                 LAMBDA res : Ok(AddCollateral(vault_coin, res)))

RECURSIVE vaults_value_from(_, _, _)
vaults_value_from(h, i, acc) ==
    IF i > Len(h.positions.vaults) THEN Ok(acc)
    ELSE Then(vault_value(h, h.positions.vaults[i]), LAMBDA one :
              vaults_value_from(h, i + 1, AddCollateral(acc, one)))

vaults_value(h) == vaults_value_from(h, 1, ZeroCollateral)

total_collateral_value(h) ==
    Then(coins_value(h, h.positions.deposits), LAMBDA deposits :
    Then(coins_value(h, h.positions.lends), LAMBDA lends :
    Then(vaults_value(h), LAMBDA vaults :
    Ok(AddCollateral(AddCollateral(deposits, vaults), lends)))))

\* spot_debt_value with a debt of unknown price valued at zero.
RECURSIVE spot_debt_value_from_defaulting(_, _, _)
spot_debt_value_from_defaulting(h, i, total) ==
    IF i > Len(h.positions.debts) THEN Ok(total)
    ELSE LET debt == h.positions.debts[i] IN
         spot_debt_value_from_defaulting(
             h, i + 1,
             total + (IF debt.denom \notin DOMAIN h.oracle_prices THEN 0
                      ELSE checked_mul_ceil(debt.amount,
                                            h.oracle_prices[debt.denom])))

RECURSIVE spot_debt_value_from(_, _, _)
spot_debt_value_from(h, i, total) ==
    IF i > Len(h.positions.debts) THEN Ok(total)
    ELSE LET debt == h.positions.debts[i] IN
         IF debt.denom \notin DOMAIN h.oracle_prices
         THEN Err("MissingPrice", debt.denom)
         ELSE spot_debt_value_from(h, i + 1,
                  total + checked_mul_ceil(debt.amount,
                                           h.oracle_prices[debt.denom]))

spot_debt_value(h) == spot_debt_value_from(h, 1, 0)

---------------------------------------------------------------------------
(* Perp contribution to the health factors *)

\* get_min_and_max_funding_amounts: <<funding_min, funding_max>>.
get_min_and_max_funding_amounts(position) ==
    LET accrued_funding_amount == position.accrued_funding_amount IN
    <<IF accrued_funding_amount < 0 THEN Abs(accrued_funding_amount) ELSE 0,
      IF accrued_funding_amount > 0 THEN accrued_funding_amount ELSE 0>>

ZeroPerpValues ==
    [max_ltv_numerator |-> 0, max_ltv_denominator |-> 0,
     liq_ltv_numerator |-> 0, liq_ltv_denominator |-> 0,
     profit |-> 0, loss |-> 0]

\* SignedDecimal::from_str("2.0")
SignedTwo == 2 * DECIMAL_FRACTIONAL

\* The body of the loop of perp_health_factor_values once the four LTVs
\* are resolved: acc with the position's PnL and its numerators and
\* denominators added (short, long, or nothing for a zero size).
perp_position_values(position, base_denom_price, max_ltv, liq_ltv, max_ltv_base_denom, liq_ltv_base_denom, acc) ==
    LET withPnl ==
            [acc EXCEPT
               !.profit = IF position.pnl.kind = "Profit"
                          THEN @ + position.pnl.amount ELSE @,
               !.loss = IF position.pnl.kind = "Loss"
                        THEN @ + position.pnl.amount ELSE @]
        funding == get_min_and_max_funding_amounts(position)
        funding_min_value == SignedMul(funding[1], base_denom_price)
        funding_max_value == SignedMul(funding[2], base_denom_price)
        closing_rate == position.closing_fee_rate
        position_value_open ==
            DecimalMul(Abs(position.size), position.entry_exec_price)
        position_value_current ==
            Abs(SignedMul(position.size, position.current_exec_price))
    IN
    IF position.size < 0 THEN
        [withPnl EXCEPT
           !.max_ltv_numerator =
               @ + position_value_open
                 + SignedMul(funding_max_value, max_ltv_base_denom),
           !.liq_ltv_numerator =
               @ + position_value_open
                 + SignedMul(funding_max_value, liq_ltv_base_denom),
           !.max_ltv_denominator =
               @ + SignedMul(position_value_current,
                             SignedTwo - max_ltv + closing_rate)
                 + funding_min_value,
           !.liq_ltv_denominator =
               @ + SignedMul(position_value_current,
                             SignedTwo - liq_ltv + closing_rate)
                 + funding_min_value]
    ELSE IF position.size > 0 THEN
        [withPnl EXCEPT
           !.max_ltv_numerator =
               @ + SignedMul(position_value_current, max_ltv - closing_rate)
                 + SignedMul(funding_max_value, max_ltv_base_denom),
           !.liq_ltv_numerator =
               @ + SignedMul(position_value_current, liq_ltv - closing_rate)
                 + SignedMul(funding_max_value, liq_ltv_base_denom),
           !.max_ltv_denominator =
               @ + position_value_open + funding_min_value,
           !.liq_ltv_denominator =
               @ + position_value_open + funding_min_value]
    ELSE withPnl

\* perp_position_step with a zero-size position valued as a long of size
\* one.
perp_position_step_flat_as_long(h, position, acc) ==
    IF position.base_denom \notin DOMAIN h.oracle_prices
    THEN Err("MissingPrice", position.base_denom)
    ELSE
    Then(get_perp_max_ltv(h, position.denom), LAMBDA max_ltv :
    Then(get_perp_liq_ltv(h, position.denom), LAMBDA liq_ltv :
    Then(get_coin_max_ltv(h, position.base_denom), LAMBDA max_ltv_base :
    Then(get_liquidation_ltv(h, position.base_denom), LAMBDA liq_ltv_base :
    Ok(perp_position_values(
           [position EXCEPT !.size = IF @ = 0 THEN DecimalOne ELSE @],
           h.oracle_prices[position.base_denom],
           max_ltv, liq_ltv, max_ltv_base, liq_ltv_base, acc))))))

\* One iteration of the loop: the price and the LTVs looked up, then the
\* position's values added to acc.
perp_position_step(h, position, acc) ==
    IF position.base_denom \notin DOMAIN h.oracle_prices
    THEN Err("MissingPrice", position.base_denom)
    ELSE
    Then(get_perp_max_ltv(h, position.denom), LAMBDA max_ltv :
    Then(get_perp_liq_ltv(h, position.denom), LAMBDA liq_ltv :
    Then(get_coin_max_ltv(h, position.base_denom), LAMBDA max_ltv_base :
    Then(get_liquidation_ltv(h, position.base_denom), LAMBDA liq_ltv_base :
    Ok(perp_position_values(position, h.oracle_prices[position.base_denom],
                            max_ltv, liq_ltv, max_ltv_base, liq_ltv_base,
                            acc))))))

RECURSIVE perp_health_factor_values_from(_, _, _, _)
perp_health_factor_values_from(h, perps, i, acc) ==
    IF i > Len(perps)
    THEN Ok([acc EXCEPT
               !.max_ltv_numerator = SignedFloor(@),
               !.max_ltv_denominator = SignedFloor(@),
               !.liq_ltv_numerator = SignedFloor(@),
               !.liq_ltv_denominator = SignedFloor(@)])
    ELSE Then(perp_position_step(h, perps[i], acc), LAMBDA one :
              perp_health_factor_values_from(h, perps, i + 1, one))

perp_health_factor_values(h, perps) ==
    perp_health_factor_values_from(h, perps, 1, ZeroPerpValues)

---------------------------------------------------------------------------
(* compute_health *)

\* Decimal::checked_from_ratio of the floored magnitudes of a numerator and
\* a denominator, as compute_health forms each health factor.
health_factor(numerator, denominator) ==
    IF to_uint_floor(Abs(denominator)) = 0
    THEN Err("DivideByZero", "health_factor")
    ELSE Ok(checked_from_ratio(to_uint_floor(Abs(numerator)),
                               to_uint_floor(Abs(denominator))))

Health(collateral, spot_debt, perp_hf_values, max_ltv_hf, liq_hf) ==
    [total_debt_value |-> to_uint_floor(Abs(spot_debt)),
     total_collateral_value |-> collateral.total_collateral_value,
     max_ltv_adjusted_collateral |-> collateral.max_ltv_adjusted_collateral,
     liquidation_threshold_adjusted_collateral |->
         collateral.liquidation_threshold_adjusted_collateral,
     max_ltv_health_factor |-> max_ltv_hf,
     liquidation_health_factor |-> liq_hf,
     perp_pnl_profit |-> perp_hf_values.profit,
     perp_pnl_losses |-> perp_hf_values.loss]

\* spot_debt_value.is_zero() && self.positions.perps.is_empty()
hf_undefined_either(h, spot_debt) ==
    spot_debt = 0 \/ h.positions.perps = <<>>

hf_undefined(h, spot_debt) ==
    spot_debt = 0 /\ h.positions.perps = <<>>

\* spot_debt_value.checked_add(perp denominator)
hf_denominator_sub(spot_debt, perp_denominator) ==
    spot_debt - perp_denominator

hf_denominator(spot_debt, perp_denominator) ==
    spot_debt + perp_denominator

\* The health factors are None when there is no spot debt value and no
\* perp position, and the two ratios otherwise.
health_factors(h, collateral, spot_debt, perp_hf_values) ==
    IF hf_undefined(h, spot_debt)
    THEN Ok(Health(collateral, spot_debt, perp_hf_values, None, None))
    ELSE
    Then(health_factor(
             SignedFromUint(collateral.max_ltv_adjusted_collateral)
             + perp_hf_values.max_ltv_numerator,
             hf_denominator(spot_debt, perp_hf_values.max_ltv_denominator)),
         LAMBDA max_ltv_hf :
    Then(health_factor(
             SignedFromUint(
                 collateral.liquidation_threshold_adjusted_collateral)
             + perp_hf_values.liq_ltv_numerator,
             hf_denominator(spot_debt, perp_hf_values.liq_ltv_denominator)),
         LAMBDA liq_hf :
    Ok(Health(collateral, spot_debt, perp_hf_values,
              Some(max_ltv_hf), Some(liq_hf)))))

compute_health(h) ==
    Then(total_collateral_value(h), LAMBDA collateral :
    Then(spot_debt_value(h), LAMBDA debt :
    Then(perp_health_factor_values(h, h.positions.perps), LAMBDA perp :
    health_factors(h, collateral, SignedFromUint(debt), perp))))

---------------------------------------------------------------------------
(* Max-action estimators *)

Panic(what) == [ok |-> FALSE, err |-> "panic", on |-> what]

\* The margin of error of the estimators: SignedDecimal::one().
SignedOne == DECIMAL_FRACTIONAL

\* "Zero borrowable if unhealthy": with perps or debt, the health factor
\* hf = (rwa + perp_numerator) / (debt + perp_denominator) is formed and
\* hf.abs.le(&one.abs) decides.  Ok(TRUE) when the estimator returns zero.
unhealthy(h, v) ==
    IF h.positions.perps # <<>> \/ Abs(v.debt_value) > 0
    THEN IF v.debt_value + v.perp_denominator = 0
         THEN Err("DivideByZero", "hf")
         ELSE Ok(Abs(SignedDiv(v.rwa + v.perp_numerator,
                               v.debt_value + v.perp_denominator))
                 <= Abs(SignedOne))
    ELSE Ok(FALSE)

\* rwa.checked_sub(debt)?.checked_sub(perpd)?.checked_add(perpn)?
\*    .checked_sub(one)?.abs.to_uint_floor()
max_action_value(v) ==
    to_uint_floor(Abs(v.rwa - v.debt_value - v.perp_denominator
                      + v.perp_numerator - SignedOne))

\* The SignedDecimals every estimator works on: the max-LTV adjusted
\* collateral, the spot debt and the max-LTV perp values.
EstimatorValues(collateral, debt, perp) ==
    [rwa |-> SignedFromUint(collateral.max_ltv_adjusted_collateral),
     debt_value |-> SignedFromUint(debt),
     perp_numerator |-> perp.max_ltv_numerator,
     perp_denominator |-> perp.max_ltv_denominator]

estimator_values(h) ==
    Then(total_collateral_value(h), LAMBDA collateral :
    Then(spot_debt_value(h), LAMBDA debt :
    Then(perp_health_factor_values(h, h.positions.perps), LAMBDA perp :
    Ok(EstimatorValues(collateral, debt, perp)))))

\* The withdrawable amount once the values, the price and the LTV of the
\* denom are known: zero when unhealthy, else the formula capped at the
\* balance.
withdraw_amount(h, withdraw_denom, balance, divisor, v) ==
    Then(unhealthy(h, v), LAMBDA zero :
    IF zero THEN OkVia(0, "unhealthy")
    ELSE IF divisor = 0 THEN Err("DivideByZero", withdraw_denom)
    ELSE OkVia(Min(checked_div_floor(max_action_value(v), divisor), balance),
               "formula"))

\* withdraw_denom_price.checked_mul(withdraw_denom_max_ltv)
withdraw_divisor(h, withdraw_denom) ==
    DecimalMul(h.oracle_prices[withdraw_denom],
               IF h.kind = "Default"
               THEN h.asset_params[withdraw_denom].max_loan_to_value
               ELSE h.asset_params[withdraw_denom].hls[1].max_loan_to_value)

max_withdraw_amount_estimate(h, withdraw_denom) ==
    IF get_coin_from_deposits_and_lends(h, withdraw_denom).amount = 0
    THEN OkVia(0, "no_balance")
    ELSE IF withdraw_denom \notin DOMAIN h.asset_params
    THEN Err("MissingAssetParams", withdraw_denom)
    ELSE IF (h.positions.debts = <<>> /\ h.positions.perps = <<>>)
            \/ ~h.asset_params[withdraw_denom].whitelisted
    THEN OkVia(get_coin_from_deposits_and_lends(h, withdraw_denom).amount,
               "full_balance")
    ELSE
    Then(total_collateral_value(h), LAMBDA collateral :
    Then(spot_debt_value(h), LAMBDA debt :
    IF withdraw_denom \notin DOMAIN h.oracle_prices
    THEN Err("MissingPrice", withdraw_denom)
    ELSE IF h.kind # "Default" /\ h.asset_params[withdraw_denom].hls = None
    THEN Err("MissingHLSParams", withdraw_denom)
    ELSE
    Then(perp_health_factor_values(h, h.positions.perps), LAMBDA perp :
    withdraw_amount(
        h, withdraw_denom,
        get_coin_from_deposits_and_lends(h, withdraw_denom).amount,
        withdraw_divisor(h, withdraw_denom),
        EstimatorValues(collateral, debt, perp)))))

\* SwapKind::Margin once the whole balance is swappable: the balance plus
\* what can be borrowed of from_denom and swapped.
margin_swap_amount(balance, from_price, from_ltv, to_ltv, to_ltv_slippage_corrected, v) ==
    LET from_coin_value == checked_mul_floor(balance, from_price)
        swap_from_ltv_value == checked_mul_floor(from_coin_value, from_ltv)
        swap_to_ltv_value == checked_mul_floor(from_coin_value, to_ltv)
    IN
    IF to_ltv_slippage_corrected > DecimalOne
    THEN Err("Overflow", "1 - to_ltv_slippage_corrected")
    ELSE IF DecimalMul(DecimalOne - to_ltv_slippage_corrected, from_price) = 0
    THEN Err("DivideByZero", "margin")
    ELSE OkVia(checked_div_floor(
                   max_action_value(
                       [v EXCEPT !.rwa = @ + SignedFromUint(swap_to_ltv_value)
                                           - SignedFromUint(swap_from_ltv_value)]),
                   DecimalMul(DecimalOne - to_ltv_slippage_corrected,
                              from_price))
               + balance,
               "margin")

\* The swap estimate from the slippage-corrected LTV on.
swap_amount(kind, balance, from_price, from_ltv, to_ltv, to_ltv_slippage_corrected, v) ==
    IF to_ltv_slippage_corrected >= from_ltv
    THEN IF kind = "Default" THEN OkVia(balance, "no_ltv_loss")
         ELSE margin_swap_amount(balance, from_price, from_ltv, to_ltv,
                                 to_ltv_slippage_corrected, v)
    ELSE IF DecimalMul(from_price, from_ltv - to_ltv_slippage_corrected) = 0
    THEN Err("DivideByZero", "swap")
    ELSE IF kind = "Default"
            \/ checked_div_floor(
                   max_action_value(v),
                   DecimalMul(from_price,
                              from_ltv - to_ltv_slippage_corrected))
               < balance
    THEN OkVia(Min(checked_div_floor(
                       max_action_value(v),
                       DecimalMul(from_price,
                                  from_ltv - to_ltv_slippage_corrected)),
                   balance),
               "formula")
    ELSE margin_swap_amount(balance, from_price, from_ltv, to_ltv,
                            to_ltv_slippage_corrected, v)

\* swap_ltvs without the return of zero for an asset that is not
\* whitelisted.
swap_ltvs_without_whitelist_test(h, from_denom, to_denom, kind, slippage, v) ==
    Then(get_coin_max_ltv(h, from_denom), LAMBDA from_ltv :
    Then(get_coin_max_ltv(h, to_denom), LAMBDA to_ltv :
    IF from_denom \notin DOMAIN h.oracle_prices
    THEN Err("MissingPrice", from_denom)
    ELSE IF slippage > DecimalOne THEN Panic("Decimal::one() - slippage")
    ELSE swap_amount(kind,
                     get_coin_from_deposits_and_lends(h, from_denom).amount,
                     h.oracle_prices[from_denom], from_ltv, to_ltv,
                     DecimalMul(to_ltv, DecimalOne - slippage), v)))

\* The swap estimate from the LTV lookups on.
swap_ltvs(h, from_denom, to_denom, kind, slippage, v) ==
    Then(get_coin_max_ltv(h, from_denom), LAMBDA from_ltv :
    Then(get_coin_max_ltv(h, to_denom), LAMBDA to_ltv :
    IF from_ltv = 0 \/ to_ltv = 0 THEN OkVia(0, "not_whitelisted")
    ELSE IF from_denom \notin DOMAIN h.oracle_prices
    THEN Err("MissingPrice", from_denom)
    ELSE IF slippage > DecimalOne THEN Panic("Decimal::one() - slippage")
    ELSE swap_amount(kind,
                     get_coin_from_deposits_and_lends(h, from_denom).amount,
                     h.oracle_prices[from_denom], from_ltv, to_ltv,
                     DecimalMul(to_ltv, DecimalOne - slippage), v)))

max_swap_amount_estimate(h, from_denom, to_denom, kind, slippage) ==
    IF kind = "Default" /\ h.positions.debts = <<>>
       /\ h.positions.perps = <<>>
    THEN OkVia(get_coin_from_deposits_and_lends(h, from_denom).amount,
               "full_balance")
    ELSE
    Then(estimator_values(h), LAMBDA v :
    Then(unhealthy(h, v), LAMBDA zero :
    IF zero THEN OkVia(0, "unhealthy")
    ELSE swap_ltvs(h, from_denom, to_denom, kind, slippage, v)))

\* The LTV that the borrowed amount earns back as collateral, per target:
\* the `match target` of max_borrow_amount_estimate up to the divisor.
\* Some(ltv) for Deposit, Vault and Swap; None for Wallet.
borrow_target_ltv(h, borrow_denom_max_ltv, target) ==
    IF target.kind = "Deposit" THEN Ok(Some(borrow_denom_max_ltv))
    ELSE IF target.kind = "Wallet" THEN Ok(None)
    ELSE IF target.kind = "Vault" THEN
        IF target.address \notin DOMAIN h.vaults_data.vault_configs
        THEN Err("MissingVaultConfig", target.address)
        ELSE IF ~h.vaults_data.vault_configs[target.address].whitelisted
        THEN Ok(Some(0))
        ELSE IF h.kind = "Default"
        THEN Ok(Some(h.vaults_data.vault_configs[target.address]
                         .max_loan_to_value))
        ELSE IF h.vaults_data.vault_configs[target.address].hls = None
        THEN Err("MissingHLSParams", target.address)
        ELSE Ok(Some(h.vaults_data.vault_configs[target.address].hls[1]
                         .max_loan_to_value))
    ELSE
        IF ~get_coin_max_ltv(h, target.denom_out).ok
        THEN Panic("get_coin_max_ltv(denom_out).unwrap()")
        ELSE IF target.slippage > DecimalOne
        THEN Panic("Decimal::one() - slippage")
        ELSE Ok(Some(DecimalMul(get_coin_max_ltv(h, target.denom_out).v,
                                DecimalOne - target.slippage)))

\* numerator.checked_div_floor(denominator) of the matched target.
borrow_amount(borrow_denom, borrow_denom_price, ltv, v) ==
    IF ltv # None /\ ltv[1] > DecimalOne THEN Err("Overflow", "1 - ltv")
    ELSE IF (IF ltv = None THEN borrow_denom_price
             ELSE DecimalMul(borrow_denom_price, DecimalOne - ltv[1])) = 0
    THEN Err("DivideByZero", borrow_denom)
    ELSE OkVia(checked_div_floor(
                   max_action_value(v),
                   IF ltv = None THEN borrow_denom_price
                   ELSE DecimalMul(borrow_denom_price, DecimalOne - ltv[1])),
               "formula")

max_borrow_amount_estimate(h, borrow_denom, target) ==
    Then(estimator_values(h), LAMBDA v :
    IF borrow_denom \notin DOMAIN h.asset_params
    THEN Err("MissingAssetParams", borrow_denom)
    ELSE IF ~h.asset_params[borrow_denom].whitelisted \/ v.rwa = 0
    THEN OkVia(0, "not_borrowable")
    ELSE
    Then(unhealthy(h, v), LAMBDA zero :
    IF zero THEN OkVia(0, "unhealthy")
    ELSE IF h.kind # "Default" /\ h.asset_params[borrow_denom].hls = None
    THEN Err("MissingHLSParams", borrow_denom)
    ELSE IF borrow_denom \notin DOMAIN h.oracle_prices
    THEN Err("MissingPrice", borrow_denom)
    ELSE
    Then(borrow_target_ltv(
             h,
             IF h.kind = "Default"
             THEN h.asset_params[borrow_denom].max_loan_to_value
             ELSE h.asset_params[borrow_denom].hls[1].max_loan_to_value,
             target),
         LAMBDA ltv :
    borrow_amount(borrow_denom, h.oracle_prices[borrow_denom], ltv, v))))

---------------------------------------------------------------------------
(* liquidation_price *)

\* Uint128 * Decimal: the product floored to a whole number.
UintMulDecimal(amount, dec) == (amount * dec) \div DECIMAL_FRACTIONAL

\* Decimal::from_ratio panics on a zero denominator.
from_ratio(n, d) ==
    IF d = 0 THEN Panic("Decimal::from_ratio")
    ELSE Ok((n * DECIMAL_FRACTIONAL) \div d)

\* The Asset arm: the price of the asset at which the account's max-LTV
\* adjusted collateral equals its spot debt, as a whole number.
liquidation_price_asset(asset_amount, current_price, asset_ltv, collateral_ltv_value, total_debt_value) ==
    LET asset_ltv_value ==
            checked_mul_floor(asset_amount,
                              DecimalMul(current_price, asset_ltv))
        debt_with_asset_ltv_value == total_debt_value + asset_ltv_value
    IN
    IF debt_with_asset_ltv_value <= collateral_ltv_value
    THEN OkVia(0, "no_liquidation")
    ELSE Then(from_ratio(DECIMAL_FRACTIONAL, asset_ltv), LAMBDA inverse_ltv :
         OkVia(UintMulDecimal(
                   1,
                   DecimalMul(
                       checked_from_ratio(
                           debt_with_asset_ltv_value - collateral_ltv_value,
                           asset_amount),
                       inverse_ltv)),
               "asset"))

\* The first debt of the denom, as Iterator::find: None if there is none.
RECURSIVE FindDebtFrom(_, _, _)
FindDebtFrom(debts, denom, i) ==
    IF i > Len(debts) THEN None
    ELSE IF debts[i].denom = denom THEN Some(debts[i])
    ELSE FindDebtFrom(debts, denom, i + 1)

\* The Debt arm: the price of the debt at which the spot debt equals the
\* max-LTV adjusted collateral, as a whole number.
liquidation_price_debt(found, denom, current_price, collateral_ltv_value, total_debt_value) ==
    IF found = None THEN Err("MissingAmount", denom)
    ELSE IF found[1].amount = 0 THEN Err("MissingAmount", denom)
    ELSE LET debt_value == checked_mul_ceil(found[1].amount, current_price)
         IN IF collateral_ltv_value + debt_value < total_debt_value
            THEN Err("Overflow", "checked_sub")
            ELSE OkVia((collateral_ltv_value + debt_value - total_debt_value)
                           \div found[1].amount,
                       "debt")

LiquidationPriceKinds == {"Asset", "Debt"}

liquidation_price(h, denom, kind) ==
    Then(total_collateral_value(h), LAMBDA collateral :
    Then(spot_debt_value(h), LAMBDA total_debt_value :
    IF total_debt_value = 0 THEN OkVia(0, "no_debt")
    ELSE IF denom \notin DOMAIN h.oracle_prices
    THEN Err("MissingPrice", denom)
    ELSE IF total_debt_value >= collateral.max_ltv_adjusted_collateral
    THEN OkVia(UintMulDecimal(1, h.oracle_prices[denom]), "under_water")
    ELSE IF kind = "Asset"
    THEN IF get_coin_from_deposits_and_lends(h, denom).amount = 0
         THEN Err("MissingAmount", denom)
         ELSE Then(get_coin_max_ltv(h, denom), LAMBDA asset_ltv :
              liquidation_price_asset(
                  get_coin_from_deposits_and_lends(h, denom).amount,
                  h.oracle_prices[denom], asset_ltv,
                  collateral.max_ltv_adjusted_collateral, total_debt_value))
    ELSE liquidation_price_debt(
             FindDebtFrom(h.positions.debts, denom, 1), denom,
             h.oracle_prices[denom],
             collateral.max_ltv_adjusted_collateral, total_debt_value)))

---------------------------------------------------------------------------
(* max_perp_size_estimate *)

Directions == {"Long", "Short"}

\* Direction::sign
DirectionSign(direction) ==
    IF direction = "Long" THEN DECIMAL_FRACTIONAL ELSE -DECIMAL_FRACTIONAL

Max(a, b) == IF a >= b THEN a ELSE b

\* The largest r in lo..hi with r * r <= n.
RECURSIVE IsqrtBetween(_, _, _)
IsqrtBetween(n, lo, hi) ==
    IF lo >= hi THEN lo
    ELSE LET mid == (lo + hi + 1) \div 2 IN
         IF mid * mid <= n THEN IsqrtBetween(n, mid, hi)
         ELSE IsqrtBetween(n, lo, mid - 1)

\* Decimal::sqrt: the square root floored to the last fractional digit.
DecimalSqrt(dec) ==
    IsqrtBetween(dec * DECIMAL_FRACTIONAL, 0, dec * DECIMAL_FRACTIONAL + 1)

\* The room that the open interest caps of the market leave for a new
\* position in the direction, as an amount of the perp: the smaller of the
\* direction's cap less the direction's open interest value and the net cap
\* less the net open interest value, zero once a cap is reached or
\* exceeded.
calculate_remaining_oi_value(long_oi_amount, short_oi_amount, perp_oracle_price, perp_params, direction) ==
    LET long_oi_value == DecimalMul(long_oi_amount, perp_oracle_price)
        short_oi_value == DecimalMul(short_oi_amount, perp_oracle_price)
        direction_room ==
            IF direction = "Long"
            THEN SignedFromUint(perp_params.max_long_oi_value) - long_oi_value
            ELSE SignedFromUint(perp_params.max_short_oi_value)
                 - short_oi_value
        net_room ==
            SignedFromUint(perp_params.max_net_oi_value)
            - Abs(long_oi_value - short_oi_value)
    IN
    IF direction_room <= 0 \/ net_room <= 0 THEN Ok(0)
    ELSE IF perp_oracle_price = 0
    THEN Err("DivideByZero", "calculate_remaining_oi_value")
    ELSE Ok(SignedDiv(Min(direction_room, net_room), perp_oracle_price))

get_execution_price(perp_oracle_price, skew, skew_scale, q_old) ==
    IF skew_scale = 0 THEN Err("DivideByZero", "skew_scale")
    ELSE Ok(SignedMul(
                perp_oracle_price,
                DecimalOne
                + SignedDiv(skew - (IF q_old = 0 THEN 0
                                    ELSE SignedDiv(q_old, SignedTwo)),
                            skew_scale)))

\* The coins of the list whose denom is not the given one.
OtherCoins(coins, denom) == SelectSeq(coins, LAMBDA c : c.denom # denom)

\* (base_denom_collateral_value, other_collateral_value, debt_value) as a
\* record.
account_composition(h, base_denom, denom, base_denom_price) ==
    Then(coins_value(h, OtherCoins(h.positions.deposits, base_denom)),
         LAMBDA deposits :
    Then(coins_value(h, OtherCoins(h.positions.lends, base_denom)),
         LAMBDA lends :
    Then(vaults_value(h), LAMBDA vaults :
    Then(perp_health_factor_values(
             h, SelectSeq(h.positions.perps, LAMBDA x : x.denom # denom)),
         LAMBDA other_perp_hf_values :
    Then(spot_debt_value(h), LAMBDA raw_debt_value :
    Ok([base_denom_collateral_value |->
            SignedMul(base_denom_price,
                      SignedFromUint(
                          FindAmountFrom(h.positions.deposits, base_denom, 1)
                          + FindAmountFrom(h.positions.lends, base_denom, 1))),
        rwa_value |->
            SignedFromUint(deposits.max_ltv_adjusted_collateral
                           + lends.max_ltv_adjusted_collateral
                           + vaults.max_ltv_adjusted_collateral)
            + other_perp_hf_values.max_ltv_numerator,
        debt_value |->
            SignedFromUint(raw_debt_value)
            + other_perp_hf_values.max_ltv_denominator]))))))

\* (f, q_old, p_ex_o) of the account's position in the denom, as a record;
\* of no position when the account has none.
RECURSIVE FindPerpFrom(_, _, _)
FindPerpFrom(perps, denom, i) ==
    IF i > Len(perps) THEN None
    ELSE IF perps[i].denom = denom THEN Some(perps[i])
    ELSE FindPerpFrom(perps, denom, i + 1)

\* q_max = -(b + sqrt(|d|)) / (2 * a) with d = b^2 - 4ac, capped by the
\* open interest room and signed by the direction.
perp_size_solution(a, b, c, max_oi_change_amount, direction) ==
    IF SignedMul(SignedTwo, a) = 0 THEN Err("DivideByZero", "2 * a")
    ELSE LET q_max_amount ==
                 0 - SignedDiv(
                         b + DecimalSqrt(
                                 Abs(SignedMul(b, b)
                                     - SignedMul(SignedMul(
                                                     4 * DECIMAL_FRACTIONAL,
                                                     a),
                                                 c))),
                         SignedMul(SignedTwo, a))
             capped ==
                 IF Abs(q_max_amount) > Abs(max_oi_change_amount)
                 THEN max_oi_change_amount ELSE q_max_amount
         IN OkVia(IF direction = "Long" THEN capped ELSE 0 - capped,
                  "formula")

\* The coefficients a, b and c of the quadratic, then its solution.
perp_size_coefficients(p, k, skew_scale, q_old, u_pnl, closing_fee_value, opposite, perp_params, ltv_base_denom, composition, max_oi_change_amount, direction) ==
    LET z == perp_params.max_loan_to_value - perp_params.closing_fee_rate
             - perp_params.opening_fee_rate - DecimalOne
        c_raw == composition.base_denom_collateral_value
                 + (u_pnl - (IF opposite THEN closing_fee_value ELSE 0))
        c_delta == SignedMul(Max(0, c_raw), ltv_base_denom)
                   - (0 - Min(0, c_raw))
        c_add ==
            SignedMul(
                SignedMul(
                    SignedMul(SignedMul(p, Abs(q_old)),
                              perp_params.opening_fee_rate),
                    DecimalOne
                    + SignedDiv(k - SignedDiv(q_old, SignedTwo),
                                skew_scale)),
                IF opposite THEN 0 ELSE DecimalOne)
    IN
    perp_size_solution(
        SignedMul(SignedMul(z, SignedDiv(p, SignedMul(SignedTwo,
                                                      skew_scale))),
                  DirectionSign(direction)),
        SignedMul(SignedMul(p, z),
                  DecimalOne + SignedDiv(k - q_old, skew_scale)),
        composition.rwa_value - composition.debt_value + c_delta + c_add,
        max_oi_change_amount, direction)

\* The estimate from the current position on: the execution price, the
\* closing fee, the unrealised PnL and the account composition.
perp_size_from_position(h, denom, base_denom, p, k, skew_scale, f, q_old, p_ex_o, perp_params, ltv_base_denom, max_oi_change_amount, direction) ==
    Then(get_execution_price(p, k, skew_scale, q_old), LAMBDA p_ex :
    Then(account_composition(h, base_denom, denom,
                             h.oracle_prices[base_denom]),
         LAMBDA composition :
    perp_size_coefficients(
        p, k, skew_scale, q_old,
        IF q_old = 0 THEN 0 ELSE SignedMul(q_old, p_ex - p_ex_o) + f,
        DecimalMul(DecimalMul(Abs(p_ex), perp_params.closing_fee_rate),
                   Abs(q_old)),
        (q_old < 0 /\ direction = "Long")
        \/ (q_old > 0 /\ direction = "Short"),
        perp_params, ltv_base_denom, composition, max_oi_change_amount,
        direction)))

\* The estimate once the open interest leaves room.
perp_size_with_room(h, denom, base_denom, p, k, skew_scale, found, perp_params, ltv_base_denom, max_oi_change_amount, direction) ==
    Then(get_execution_price(p, k, skew_scale, 0), LAMBDA p_ex_new :
    perp_size_from_position(
        h, denom, base_denom, p, k, skew_scale,
        IF found = None THEN 0 ELSE found[1].accrued_funding_value,
        IF found = None THEN 0 ELSE found[1].size,
        IF found = None THEN p_ex_new ELSE found[1].entry_exec_price,
        perp_params, ltv_base_denom, max_oi_change_amount, direction))

\* max_perp_size_estimate with the long and the short open interest
\* exchanged in the computation of the room.
max_perp_size_estimate_swapped_oi(h, denom, base_denom, long_oi_amount, short_oi_amount, direction) ==
    IF denom \notin DOMAIN h.oracle_prices THEN Err("MissingPrice", denom)
    ELSE IF base_denom \notin DOMAIN h.oracle_prices
    THEN Err("MissingPrice", base_denom)
    ELSE IF denom \notin DOMAIN h.perps_data.denom_states
    THEN Err("MissingDenomState", denom)
    ELSE IF denom \notin DOMAIN h.perps_data.params
    THEN Err("MissingPerpParams", denom)
    ELSE
    Then(get_coin_max_ltv(h, base_denom), LAMBDA ltv_base_denom :
    Then(calculate_remaining_oi_value(
             short_oi_amount, long_oi_amount, Abs(h.oracle_prices[denom]),
             h.perps_data.params[denom], direction),
         LAMBDA max_oi_change_amount :
    IF max_oi_change_amount = 0
    THEN OkVia(max_oi_change_amount, "oi_exhausted")
    ELSE perp_size_with_room(
             h, denom, base_denom, h.oracle_prices[denom],
             long_oi_amount - short_oi_amount,
             h.perps_data.denom_states[denom].skew_scale,
             FindPerpFrom(h.positions.perps, denom, 1),
             h.perps_data.params[denom], ltv_base_denom,
             max_oi_change_amount, direction)))

max_perp_size_estimate(h, denom, base_denom, long_oi_amount, short_oi_amount, direction) ==
    IF denom \notin DOMAIN h.oracle_prices THEN Err("MissingPrice", denom)
    ELSE IF base_denom \notin DOMAIN h.oracle_prices
    THEN Err("MissingPrice", base_denom)
    ELSE IF denom \notin DOMAIN h.perps_data.denom_states
    THEN Err("MissingDenomState", denom)
    ELSE IF denom \notin DOMAIN h.perps_data.params
    THEN Err("MissingPerpParams", denom)
    ELSE
    Then(get_coin_max_ltv(h, base_denom), LAMBDA ltv_base_denom :
    Then(calculate_remaining_oi_value(
             long_oi_amount, short_oi_amount, Abs(h.oracle_prices[denom]),
             h.perps_data.params[denom], direction),
         LAMBDA max_oi_change_amount :
    IF max_oi_change_amount = 0
    THEN OkVia(max_oi_change_amount, "oi_exhausted")
    ELSE perp_size_with_room(
             h, denom, base_denom, h.oracle_prices[denom],
             long_oi_amount - short_oi_amount,
             h.perps_data.denom_states[denom].skew_scale,
             FindPerpFrom(h.positions.perps, denom, 1),
             h.perps_data.params[denom], ltv_base_denom,
             max_oi_change_amount, direction)))

---------------------------------------------------------------------------
(* The snapshots of the model *)

Denoms == {"uusdc", "uosmo"}

PerpDenom == "eth/usd/perp"

VaultAddr == "vault"

Kinds == {"Default", "HighLeveredStrategy"}

\* Parameter sets: everything listed; one asset or the vault de-listed; a
\* set whose uosmo max LTV is above its liquidation threshold; sets with
\* no parameters for uosmo or for uusdc; sets with no price for uosmo or
\* for uusdc.
Profiles ==
    {"listed", "uosmo_delisted", "uusdc_delisted", "vault_delisted",
     "inverted", "uosmo_no_params", "uusdc_no_params", "uosmo_no_price",
     "uusdc_no_price"}

Coin(denom, amount) == [denom |-> denom, amount |-> amount]

AssetParamsOf(profile) ==
    [d \in (IF profile = "uosmo_no_params" THEN {"uusdc"}
            ELSE IF profile = "uusdc_no_params" THEN {"uosmo"}
            ELSE Denoms) |->
        IF d = "uusdc"
        THEN [max_loan_to_value |-> Dec(8, 10),
              liquidation_threshold |-> Dec(9, 10),
              whitelisted |-> profile # "uusdc_delisted",
              hls |-> Some([max_loan_to_value |-> Dec(9, 10),
                            liquidation_threshold |-> Dec(10, 10)])]
        ELSE [max_loan_to_value |->
                  IF profile = "inverted" THEN Dec(9, 10) ELSE Dec(7, 10),
              liquidation_threshold |-> Dec(8, 10),
              whitelisted |-> profile # "uosmo_delisted",
              hls |-> Some([max_loan_to_value |-> Dec(8, 10),
                            liquidation_threshold |-> Dec(9, 10)])]]

OraclePrices ==
    [d \in Denoms \cup {PerpDenom} |->
        IF d = "uusdc" THEN Dec(1, 1)
        ELSE IF d = "uosmo" THEN Dec(5, 2)
        ELSE Dec(2, 1)]

OraclePricesOf(profile) ==
    [d \in (IF profile = "uosmo_no_price" THEN {"uusdc", PerpDenom}
            ELSE IF profile = "uusdc_no_price" THEN {"uosmo", PerpDenom}
            ELSE Denoms \cup {PerpDenom}) |-> OraclePrices[d]]

VaultsDataOf(profile) ==
    [vault_values |->
        [a \in {VaultAddr} |->
            [vault_coin_value |-> 10, base_coin_denom |-> "uosmo"]],
     vault_configs |->
        [a \in {VaultAddr} |->
            [addr |-> a,
             max_loan_to_value |-> Dec(6, 10),
             liquidation_threshold |-> Dec(7, 10),
             whitelisted |-> profile # "vault_delisted",
             hls |-> Some([max_loan_to_value |-> Dec(7, 10),
                           liquidation_threshold |-> Dec(8, 10)])]]]

PerpsDataOf(enabled) ==
    [params |->
        [d \in {PerpDenom} |->
            [max_loan_to_value |-> Dec(8, 10),
             liquidation_threshold |-> Dec(9, 10),
             opening_fee_rate |-> Dec(1, 10),
             closing_fee_rate |-> Dec(1, 10),
             max_long_oi_value |-> 60,
             max_short_oi_value |-> 60,
             max_net_oi_value |-> 100]],
     denom_states |->
        [d \in {PerpDenom} |->
            [enabled |-> enabled, skew_scale |-> Dec(1, 1)]]]

PerpPosition(size, entry_exec, current_exec, funding, pnl_kind, pnl) ==
    [denom |-> PerpDenom,
     base_denom |-> "uusdc",
     size |-> size,
     entry_exec_price |-> entry_exec,
     current_exec_price |-> current_exec,
     closing_fee_rate |-> Dec(1, 10),
     accrued_funding_amount |-> funding,
     accrued_funding_value |-> funding,
     pnl |-> [kind |-> pnl_kind, amount |-> pnl]]

\* The perp positions an account of the model may hold, with the state of
\* the market: none; longs (flat, with funding owed or earned, one far in
\* profit on a disabled market, one with a large funding earned); shorts;
\* a zero-size position, alone and next to a long.
PerpChoices ==
    {[perps |-> <<>>, enabled |-> TRUE],
     [perps |-> <<PerpPosition(Dec(1, 1), Dec(2, 1), Dec(2, 1), 0,
                               "BreakEven", 0)>>,
      enabled |-> TRUE],
     [perps |-> <<PerpPosition(Dec(1, 1), Dec(2, 1), Dec(3, 1), Dec(3, 2),
                               "Profit", 2)>>,
      enabled |-> TRUE],
     [perps |-> <<PerpPosition(Dec(1, 1), Dec(2, 1), Dec(1, 1), -Dec(3, 2),
                               "Loss", 2)>>,
      enabled |-> TRUE],
     [perps |-> <<PerpPosition(Dec(1, 1), Dec(1, 1), Dec(30, 1), 0,
                               "Profit", 29)>>,
      enabled |-> FALSE],
     [perps |-> <<PerpPosition(-Dec(1, 1), Dec(2, 1), Dec(1, 1), Dec(3, 2),
                               "Profit", 2)>>,
      enabled |-> TRUE],
     [perps |-> <<PerpPosition(-Dec(1, 1), Dec(2, 1), Dec(2, 1), -Dec(3, 2),
                               "Loss", 1)>>,
      enabled |-> FALSE],
     [perps |-> <<PerpPosition(0, Dec(2, 1), Dec(2, 1), Dec(3, 2),
                               "BreakEven", 0)>>,
      enabled |-> TRUE],
     [perps |-> <<PerpPosition(Dec(1, 1), Dec(2, 1), Dec(2, 1), Dec(20, 1),
                               "Profit", 20)>>,
      enabled |-> TRUE],
     [perps |-> <<PerpPosition(Dec(1, 1), Dec(2, 1), Dec(3, 1), Dec(3, 2),
                               "Profit", 2),
                  PerpPosition(0, Dec(2, 1), Dec(3, 1), Dec(20, 1),
                               "Profit", 20)>>,
      enabled |-> TRUE]}

VaultChoices ==
    {<<>>,
     <<[address |-> VaultAddr, unlocking |-> 0]>>,
     <<[address |-> VaultAddr, unlocking |-> 2]>>}

Snapshot(kind, profile, deposits, lends, debts, vaults, perp) ==
    [kind |-> kind,
     positions |-> [deposits |-> deposits, lends |-> lends, debts |-> debts,
                    vaults |-> vaults, perps |-> perp.perps],
     asset_params |-> AssetParamsOf(profile),
     vaults_data |-> VaultsDataOf(profile),
     perps_data |-> PerpsDataOf(perp.enabled),
     oracle_prices |-> OraclePricesOf(profile)]

NoPerp == [perps |-> <<>>, enabled |-> TRUE]

\* Spot accounts of a Default account with every uosmo deposit up to
\* MaxAmount: the cases of the estimators' rounding.
SpotSnapshots ==
    {Snapshot("Default", "listed", deposits, lends, debts, <<>>, NoPerp) :
        deposits \in
            {<<Coin("uosmo", a)>> : a \in 0..MaxAmount}
            \cup {<<Coin("uosmo", a), Coin("uusdc", b)>> :
                     a \in 0..MaxAmount, b \in {2, 3}},
        lends \in {<<>>, <<Coin("uosmo", 1)>>},
        debts \in {<<>>, <<Coin("uusdc", 0)>>, <<Coin("uusdc", 1)>>,
                   <<Coin("uusdc", 5)>>, <<Coin("uosmo", 2)>>}}

\* Accounts of both kinds under every parameter set, with vaults and perps.
MixedSnapshots ==
    {Snapshot(kind, profile, deposits, lends, debts, vaults, perp) :
        kind \in Kinds, profile \in Profiles,
        deposits \in {<<>>, <<Coin("uosmo", 4)>>,
                      <<Coin("uusdc", 3), Coin("uosmo", 18)>>},
        lends \in {<<>>, <<Coin("uosmo", 1)>>},
        debts \in {<<>>, <<Coin("uusdc", 1)>>,
                   <<Coin("uusdc", 2), Coin("uosmo", 1)>>},
        vaults \in VaultChoices,
        perp \in PerpChoices}

Snapshots == SpotSnapshots \cup MixedSnapshots

---------------------------------------------------------------------------
(* The account NFT contract *)

\* The address the contract is instantiated with as minter.
Minter == "owner"

NftSenders == {Minter, "bad_guy"}

NftUsers == {"user_1", "user_2"}

\* The token ids a mint message may carry.
SuppliedTokenIds == {"some_token_id_that_will_be_ignored", "2"}

\* The number of mints the contract state of the model holds.
MaxMints == 11

DecimalDigit(d) ==
    CASE d = 0 -> "0" [] d = 1 -> "1" [] d = 2 -> "2" [] d = 3 -> "3"
      [] d = 4 -> "4" [] d = 5 -> "5" [] d = 6 -> "6" [] d = 7 -> "7"
      [] d = 8 -> "8" [] d = 9 -> "9"

\* u64::to_string
RECURSIVE u64_to_string(_)
u64_to_string(n) ==
    IF n < 10 THEN DecimalDigit(n)
    ELSE u64_to_string(n \div 10) \o DecimalDigit(n % 10)

\* The state after instantiate: no token, the next id is 1.
NftInit == [next_id |-> 1, tokens |-> {}]

\* Mint taking the token id from the message.
nft_mint_with_supplied_id(state, sender, msg) ==
    IF sender # Minter
    THEN [state |-> state, ret |-> Err("Unauthorized", "mint")]
    ELSE IF \E t \in state.tokens : t.token_id = msg.token_id
    THEN [state |-> state, ret |-> Err("Claimed", "mint")]
    ELSE [state |-> [next_id |-> state.next_id + 1,
                     tokens |-> state.tokens
                                \cup {[token_id |-> msg.token_id,
                                       owner |-> msg.owner]}],
          ret |-> Ok(msg.token_id)]

\* ExecuteMsg::Mint: only the minter mints; the token id is the next id
\* of the contract as a decimal string, whatever id the message carries;
\* the token is stored under it with the owner of the message.
nft_mint(state, sender, msg) ==
    LET token_id == u64_to_string(state.next_id) IN
    IF sender # Minter
    THEN [state |-> state, ret |-> Err("Unauthorized", "mint")]
    ELSE IF \E t \in state.tokens : t.token_id = token_id
    THEN [state |-> state, ret |-> Err("Claimed", "mint")]
    ELSE [state |-> [next_id |-> state.next_id + 1,
                     tokens |-> state.tokens
                                \cup {[token_id |-> token_id,
                                       owner |-> msg.owner]}],
          ret |-> Ok(token_id)]

---------------------------------------------------------------------------
(* The perps contract: its counterparty vault *)

DEFAULT_SHARES_PER_AMOUNT == 1000000

\* The Config the contract is initialized with.
CooldownPeriod == 1

MinPositionValue == 1

PerpsConfig ==
    [credit_manager |-> "credit_manager", base_denom |-> "uusdc",
     cooldown_period |-> CooldownPeriod,
     min_position_value |-> MinPositionValue]

PerpsOwner == "owner"

\* Bounds of the contract states of the model: the block time, the
\* liquidity of the vault and the unlocks pending in the contract.
MaxTime == 1

MaxLiquidity == 2

MaxUnlocks == 2

\* A storage map with the entry of key k set to v, and with it removed.
MapSave(m, k, v) == [x \in DOMAIN m \cup {k} |-> IF x = k THEN v ELSE m[x]]

MapRemove(m, k) == [x \in DOMAIN m \ {k} |-> m[x]]

EmptyMap == [x \in {} |-> 0]

\* Uint128::checked_multiply_ratio: floor(a * numerator / denominator)
checked_multiply_ratio(a, numerator, denominator) ==
    IF denominator = 0 THEN Err("DivideByZero", "checked_multiply_ratio")
    ELSE Ok((a * numerator) \div denominator)

amount_to_shares(vs, amount) ==
    IF vs.total_shares = 0 THEN Ok(amount * DEFAULT_SHARES_PER_AMOUNT)
    ELSE checked_multiply_ratio(vs.total_shares, amount, vs.total_liquidity)

shares_to_amount(vs, shares) ==
    IF vs.total_shares = 0 THEN Err("ZeroTotalShares", "shares_to_amount")
    ELSE checked_multiply_ratio(vs.total_liquidity, shares, vs.total_shares)

\* cw_utils::must_pay: exactly one coin, of the denom, of a non-zero amount.
must_pay(funds, denom) ==
    IF Len(funds) = 0 THEN Err("NoFunds", "must_pay")
    ELSE IF Len(funds) > 1 THEN Err("MultipleDenoms", "must_pay")
    ELSE IF funds[1].denom # denom THEN Err("MissingDenom", "must_pay")
    ELSE IF funds[1].amount = 0 THEN Err("NoFunds", "must_pay")
    ELSE Ok(funds[1].amount)

\* cw_utils::may_pay: no coin, or one coin of the denom.
may_pay(funds, denom) ==
    IF Len(funds) = 0 THEN Ok(0)
    ELSE IF Len(funds) > 1 THEN Err("MultipleDenoms", "may_pay")
    ELSE IF funds[1].denom # denom THEN Err("ExtraDenom", "may_pay")
    ELSE Ok(funds[1].amount)

\* cw_utils::nonpayable: no coin at all.
nonpayable(funds) ==
    IF Len(funds) = 0 THEN Ok(0) ELSE Err("NonPayable", "nonpayable")

\* state::increase_deposit_shares and state::decrease_deposit_shares: the
\* depositor's shares, which cannot go below zero.
increase_deposit_shares(deposit_shares, depositor, shares) ==
    Ok(MapSave(deposit_shares, depositor,
               (IF depositor \in DOMAIN deposit_shares
                THEN deposit_shares[depositor] ELSE 0) + shares))

decrease_deposit_shares(deposit_shares, depositor, shares) ==
    LET held == IF depositor \in DOMAIN deposit_shares
                THEN deposit_shares[depositor] ELSE 0
    IN IF shares > held THEN Err("Overflow", "decrease_deposit_shares")
       ELSE Ok(MapSave(deposit_shares, depositor, held - shares))

\* The storage after initialize: the vault state is zero, no denom, no
\* position, no deposit, no unlock. Of a DenomState the model keeps the
\* enabled flag and the total size; now is the time of the block.
PerpsInit ==
    [now |-> 0,
     vault_state |-> [total_liquidity |-> 0, total_shares |-> 0],
     deposit_shares |-> EmptyMap,
     unlocks |-> EmptyMap,
     denom_states |-> EmptyMap,
     positions |-> EmptyMap]

\* A handler returns Ok of the storage it leaves and of its response, or
\* an error, which reverts the transaction: the storage stays as it was.
perps_deposit(state, sender, funds) ==
    Then(must_pay(funds, PerpsConfig.base_denom), LAMBDA amount :
    Then(amount_to_shares(state.vault_state, amount), LAMBDA shares :
    Then(increase_deposit_shares(state.deposit_shares, sender, shares),
         LAMBDA deposit_shares :
    Ok([state |->
            [state EXCEPT
                !.vault_state =
                    [total_liquidity |-> @.total_liquidity + amount,
                     total_shares |-> @.total_shares + shares],
                !.deposit_shares = deposit_shares],
        response |-> [method |-> "deposit", amount |-> amount,
                      shares |-> shares]]))))

perps_unlock(state, current_time, depositor, shares) ==
    Then(shares_to_amount(state.vault_state, shares), LAMBDA amount :
    IF amount = 0 THEN Err("ZeroShares", "unlock")
    ELSE IF amount > state.vault_state.total_liquidity
    THEN Err("Overflow", "total_liquidity")
    ELSE IF shares > state.vault_state.total_shares
    THEN Err("Overflow", "total_shares")
    ELSE
    Then(decrease_deposit_shares(state.deposit_shares, depositor, shares),
         LAMBDA deposit_shares :
    Ok([state |->
            [state EXCEPT
                !.vault_state =
                    [total_liquidity |-> @.total_liquidity - amount,
                     total_shares |-> @.total_shares - shares],
                !.deposit_shares = deposit_shares,
                !.unlocks =
                    MapSave(@, depositor,
                            Append(IF depositor \in DOMAIN @
                                   THEN @[depositor] ELSE <<>>,
                                   [created_at |-> current_time,
                                    cooldown_end |->
                                        current_time
                                        + PerpsConfig.cooldown_period,
                                    amount |-> amount]))],
        response |-> [method |-> "unlock", amount |-> amount,
                      shares |-> shares, created_at |-> current_time,
                      cooldown_end |->
                          current_time + PerpsConfig.cooldown_period]])))

\* Withdraw taking every entry as unlocked, whatever its cooldown_end.
partition_unlocked_ignoring_cooldown(unlocks, current_time, matured) ==
    IF matured THEN unlocks ELSE <<>>

\* The entries of a list of unlocks that satisfy, or do not satisfy,
\* cooldown_end <= current_time, in the order of the list.
RECURSIVE partition_unlocked(_, _, _)
partition_unlocked(unlocks, current_time, matured) ==
    IF unlocks = <<>> THEN <<>>
    ELSE (IF (Head(unlocks).cooldown_end <= current_time) = matured
          THEN <<Head(unlocks)>> ELSE <<>>)
         \o partition_unlocked(Tail(unlocks), current_time, matured)

RECURSIVE sum_amounts(_)
sum_amounts(unlocks) ==
    IF unlocks = <<>> THEN 0
    ELSE Head(unlocks).amount + sum_amounts(Tail(unlocks))

perps_withdraw_partitioned(state, depositor, unlocked, unlocking) ==
    IF unlocked = <<>> THEN Err("UnlockedPositionsNotFound", "withdraw")
    ELSE Ok([state |->
                 [state EXCEPT
                     !.unlocks = IF unlocking = <<>>
                                 THEN MapRemove(@, depositor)
                                 ELSE MapSave(@, depositor, unlocking)],
             response |-> [method |-> "withdraw",
                           amount |-> sum_amounts(unlocked),
                           to_address |-> depositor]])

perps_withdraw(state, current_time, depositor) ==
    IF depositor \notin DOMAIN state.unlocks
    THEN Err("NotFound", "UNLOCKS")
    ELSE perps_withdraw_partitioned(
             state, depositor,
             partition_unlocked(state.unlocks[depositor], current_time, TRUE),
             partition_unlocked(state.unlocks[depositor], current_time,
                                FALSE))

---------------------------------------------------------------------------
(* The perps contract: markets and positions *)

\* OWNER.assert_owner
assert_owner(sender) ==
    IF sender = PerpsOwner THEN Ok(sender) ELSE Err("NotOwner", "OWNER")

perps_init_denom(state, sender, denom, skew_scale) ==
    Then(assert_owner(sender), LAMBDA owner :
    IF denom \in DOMAIN state.denom_states
    THEN Err("DenomAlreadyExists", denom)
    ELSE IF skew_scale = 0 THEN Err("InvalidParam", "skew_scale")
    ELSE Ok([state |->
                 [state EXCEPT
                     !.denom_states =
                         MapSave(@, denom,
                                 [enabled |-> TRUE, total_size |-> 0])],
             response |-> [method |-> "init_denom", denom |-> denom]]))

perps_enable_denom(state, sender, denom) ==
    Then(assert_owner(sender), LAMBDA owner :
    IF denom \notin DOMAIN state.denom_states
    THEN Err("DenomNotFound", denom)
    ELSE IF state.denom_states[denom].enabled
    THEN Err("DenomEnabled", denom)
    ELSE Ok([state |->
                 [state EXCEPT
                     !.denom_states[denom] =
                         [@ EXCEPT !.enabled = TRUE]],
             response |-> [method |-> "enable_denom", denom |-> denom]]))

perps_disable_denom(state, sender, denom) ==
    Then(assert_owner(sender), LAMBDA owner :
    IF denom \notin DOMAIN state.denom_states
    THEN Err("DenomNotFound", denom)
    ELSE Ok([state |->
                 [state EXCEPT
                     !.denom_states[denom] =
                         [@ EXCEPT !.enabled = FALSE]],
             response |-> [method |-> "disable_denom", denom |-> denom]]))

\* oracle.query_price: the price the oracle has for the denom at the
\* call, if it has one.
query_price(price, denom) ==
    IF price = None THEN Err("QueryError", denom) ELSE Ok(price[1])

\* DenomStateExt::open_position and DenomStateExt::close_position: the
\* accumulators of the market take the position in and give it back.
denom_state_open_position(ds, size) ==
    [ds EXCEPT !.total_size = @ + size]

denom_state_close_position(ds, position) ==
    [ds EXCEPT !.total_size = @ - position.size]

\* open_position without the test that the account has no position in
\* the denom yet.
perps_open_position_overwriting(state, sender, funds, price, account_id, denom, size) ==
    Then(nonpayable(funds), LAMBDA nothing :
    Then(query_price(price, denom), LAMBDA entry_price :
    IF sender # PerpsConfig.credit_manager
    THEN Err("SenderIsNotCreditManager", "open_position")
    ELSE IF denom \notin DOMAIN state.denom_states
    THEN Err("NotFound", "DENOM_STATES")
    ELSE IF ~state.denom_states[denom].enabled
    THEN Err("DenomNotEnabled", denom)
    ELSE IF to_uint_floor(SignedMul(Abs(size), entry_price)) < PerpsConfig.min_position_value
    THEN Err("PositionTooSmall", denom)
    ELSE Ok([state |->
                 [state EXCEPT
                     !.denom_states[denom] =
                         denom_state_open_position(@, size),
                     !.positions =
                         MapSave(@, <<account_id, denom>>,
                                 [size |-> size,
                                  entry_price |-> entry_price])],
             response |-> [method |-> "open_position",
                           account_id |-> account_id, denom |-> denom,
                           size |-> size, entry_price |-> entry_price]])))

perps_open_position(state, sender, funds, price, account_id, denom, size) ==
    Then(nonpayable(funds), LAMBDA nothing :
    Then(query_price(price, denom), LAMBDA entry_price :
    IF sender # PerpsConfig.credit_manager
    THEN Err("SenderIsNotCreditManager", "open_position")
    ELSE IF denom \notin DOMAIN state.denom_states
    THEN Err("NotFound", "DENOM_STATES")
    ELSE IF ~state.denom_states[denom].enabled
    THEN Err("DenomNotEnabled", denom)
    ELSE IF to_uint_floor(SignedMul(Abs(size), entry_price)) < PerpsConfig.min_position_value
    THEN Err("PositionTooSmall", denom)
    ELSE IF <<account_id, denom>> \in DOMAIN state.positions
    THEN Err("PositionExists", denom)
    ELSE Ok([state |->
                 [state EXCEPT
                     !.denom_states[denom] =
                         denom_state_open_position(@, size),
                     !.positions =
                         MapSave(@, <<account_id, denom>>,
                                 [size |-> size,
                                  entry_price |-> entry_price])],
             response |-> [method |-> "open_position",
                           account_id |-> account_id, denom |-> denom,
                           size |-> size, entry_price |-> entry_price]])))

\* pnl::compute_pnl: the position's size times the move of the price
\* since the entry, in the base denom, as a profit, a loss or neither.
compute_pnl(position, exit_price) ==
    LET value == SignedFloor(SignedMul(position.size, exit_price - position.entry_price)) \div DECIMAL_FRACTIONAL
    IN IF value > 0 THEN [kind |-> "Profit", amount |-> value]
       ELSE IF value < 0 THEN [kind |-> "Loss", amount |-> -value]
       ELSE [kind |-> "BreakEven", amount |-> 0]

\* The liquidity of the vault and the refund to the credit account after
\* a position is realized.
settle_pnl(total_liquidity, paid_amount, pnl) ==
    IF pnl.kind = "Profit"
    THEN IF pnl.amount > total_liquidity
         THEN Err("Overflow", "total_liquidity")
         ELSE Ok([total_liquidity |-> total_liquidity - pnl.amount,
                  refund_amount |-> paid_amount + pnl.amount])
    ELSE IF pnl.kind = "Loss"
    THEN IF pnl.amount > paid_amount
         THEN Err("Overflow", "refund_amount")
         ELSE Ok([total_liquidity |-> total_liquidity + pnl.amount,
                  refund_amount |-> paid_amount - pnl.amount])
    ELSE Ok([total_liquidity |-> total_liquidity,
             refund_amount |-> paid_amount])

\* close_position without the test of the sender.
perps_close_position_by_anyone(state, sender, funds, price, account_id, denom) ==
    IF denom \notin DOMAIN state.denom_states
    THEN Err("NotFound", "DENOM_STATES")
    ELSE IF <<account_id, denom>> \notin DOMAIN state.positions
    THEN Err("NotFound", "POSITIONS")
    ELSE
    Then(may_pay(funds, PerpsConfig.base_denom), LAMBDA paid_amount :
    Then(query_price(price, denom), LAMBDA exit_price :
    Then(settle_pnl(state.vault_state.total_liquidity, paid_amount,
                    compute_pnl(state.positions[<<account_id, denom>>],
                                exit_price)),
         LAMBDA settled :
    Ok([state |->
            [state EXCEPT
                !.vault_state.total_liquidity = settled.total_liquidity,
                !.positions = MapRemove(@, <<account_id, denom>>),
                !.denom_states[denom] =
                    denom_state_close_position(
                        @, state.positions[<<account_id, denom>>])],
        response |-> [method |-> "close_position",
                      account_id |-> account_id, denom |-> denom,
                      refund_amount |-> settled.refund_amount]]))))

perps_close_position(state, sender, funds, price, account_id, denom) ==
    IF denom \notin DOMAIN state.denom_states
    THEN Err("NotFound", "DENOM_STATES")
    ELSE IF <<account_id, denom>> \notin DOMAIN state.positions
    THEN Err("NotFound", "POSITIONS")
    ELSE
    Then(may_pay(funds, PerpsConfig.base_denom), LAMBDA paid_amount :
    IF sender # PerpsConfig.credit_manager
    THEN Err("SenderIsNotCreditManager", "close_position")
    ELSE
    Then(query_price(price, denom), LAMBDA exit_price :
    Then(settle_pnl(state.vault_state.total_liquidity, paid_amount,
                    compute_pnl(state.positions[<<account_id, denom>>],
                                exit_price)),
         LAMBDA settled :
    Ok([state |->
            [state EXCEPT
                !.vault_state.total_liquidity = settled.total_liquidity,
                !.positions = MapRemove(@, <<account_id, denom>>),
                !.denom_states[denom] =
                    denom_state_close_position(
                        @, state.positions[<<account_id, denom>>])],
        response |-> [method |-> "close_position",
                      account_id |-> account_id, denom |-> denom,
                      refund_amount |-> settled.refund_amount]]))))

---------------------------------------------------------------------------
(* The state machine: one snapshot, one call on it *)

NoCall == [fn |-> "none"]

NoRet == [ok |-> FALSE, err |-> "none", on |-> "none"]

\* The slippages of the calls: none, 10 %, and one above 100 %, which the
\* type Decimal admits.
Slippages == {0, Dec(1, 10), Dec(11, 10)}

\* A denom that no snapshot has parameters or a price for.
UnlistedDenom == "uatom"

BorrowTargets ==
    {[kind |-> "Deposit"], [kind |-> "Wallet"],
     [kind |-> "Vault", address |-> VaultAddr]}
    \cup {[kind |-> "Swap", slippage |-> s, denom_out |-> d] :
             s \in Slippages, d \in Denoms \cup {UnlistedDenom}}

Init ==
    /\ hc \in Snapshots
    /\ call = NoCall
    /\ ret = NoRet
    /\ account_nft = NftInit
    /\ perps_contract = PerpsInit
    /\ scope = "health"

ComputeHealth ==
    /\ call = NoCall
    /\ call' = [fn |-> "compute_health"]
    /\ ret' = compute_health(hc)
    /\ UNCHANGED <<hc, account_nft, perps_contract, scope>>

MaxWithdraw ==
    /\ call = NoCall
    /\ \E denom \in Denoms :
        /\ call' = [fn |-> "max_withdraw_amount_estimate", denom |-> denom]
        /\ ret' = max_withdraw_amount_estimate(hc, denom)
    /\ UNCHANGED <<hc, account_nft, perps_contract, scope>>

MaxSwap ==
    /\ call = NoCall
    /\ \E from_denom \in Denoms, to_denom \in Denoms,
          kind \in {"Default", "Margin"}, slippage \in Slippages :
        /\ from_denom # to_denom
        /\ call' = [fn |-> "max_swap_amount_estimate",
                    from_denom |-> from_denom, to_denom |-> to_denom,
                    kind |-> kind, slippage |-> slippage]
        /\ ret' = max_swap_amount_estimate(hc, from_denom, to_denom, kind,
                                           slippage)
    /\ UNCHANGED <<hc, account_nft, perps_contract, scope>>

MaxBorrow ==
    /\ call = NoCall
    /\ \E denom \in Denoms, target \in BorrowTargets :
        /\ call' = [fn |-> "max_borrow_amount_estimate", denom |-> denom,
                    target |-> target]
        /\ ret' = max_borrow_amount_estimate(hc, denom, target)
    /\ UNCHANGED <<hc, account_nft, perps_contract, scope>>

LiquidationPrice ==
    /\ call = NoCall
    /\ \E denom \in Denoms, kind \in LiquidationPriceKinds :
        /\ call' = [fn |-> "liquidation_price", denom |-> denom,
                    kind |-> kind]
        /\ ret' = liquidation_price(hc, denom, kind)
    /\ UNCHANGED <<hc, account_nft, perps_contract, scope>>

\* The open interest of the market at the call, long or short.
OpenInterests == {0, Dec(10, 1), Dec(30, 1), Dec(60, 1)}

MaxPerpSize ==
    /\ call = NoCall
    /\ \E long_oi_amount \in OpenInterests,
          short_oi_amount \in OpenInterests, direction \in Directions :
        /\ call' = [fn |-> "max_perp_size_estimate", denom |-> PerpDenom,
                    base_denom |-> "uusdc",
                    long_oi_amount |-> long_oi_amount,
                    short_oi_amount |-> short_oi_amount,
                    direction |-> direction]
        /\ ret' = max_perp_size_estimate(hc, PerpDenom, "uusdc",
                                         long_oi_amount, short_oi_amount,
                                         direction)
    /\ UNCHANGED <<hc, account_nft, perps_contract, scope>>

Next ==
    \/ ComputeHealth
    \/ MaxWithdraw
    \/ MaxSwap
    \/ MaxBorrow
    \/ LiquidationPrice
    \/ MaxPerpSize

Spec == Init /\ [][Next]_vars

---------------------------------------------------------------------------
(* The account NFT contract as a state machine: mint after mint *)

\* No health snapshot: the contracts are called on their own storage.
NoSnapshot == [kind |-> "none"]

InitNft ==
    /\ hc = NoSnapshot
    /\ call = NoCall
    /\ ret = NoRet
    /\ account_nft = NftInit
    /\ perps_contract = PerpsInit
    /\ scope = "account_nft"

Mint ==
    /\ Cardinality(account_nft.tokens) < MaxMints
    /\ \E sender \in NftSenders, token_id \in SuppliedTokenIds,
          owner \in NftUsers :
        /\ call' = [fn |-> "mint", sender |-> sender,
                    token_id |-> token_id, owner |-> owner]
        /\ account_nft' =
               nft_mint(account_nft, sender,
                        [token_id |-> token_id, owner |-> owner]).state
        /\ ret' =
               nft_mint(account_nft, sender,
                        [token_id |-> token_id, owner |-> owner]).ret
    /\ UNCHANGED <<hc, perps_contract, scope>>

NextNft == Mint

SpecNft == InitNft /\ [][NextNft]_vars

---------------------------------------------------------------------------
(* The perps contract as a state machine: one message after another *)

\* What a run of the contract exercises, held in scope: "positions", the
\* markets and positions with one deposit behind them; "cooldown", the
\* unlocks of two depositors as the blocks pass; "shares", the shares of
\* the vault as positions are realized against it.

Depositors == IF scope = "cooldown" THEN {"alice", "bob"} ELSE {"alice"}

AccountIds == {"1", "2"}

\* A denom the owner never initializes.
UnknownPerpDenom == "btc/usd/perp"

\* A sender that is neither the owner nor the credit manager.
Stranger == "bad_guy"

DepositFunds ==
    IF scope = "positions" THEN {<<Coin("uusdc", 2)>>}
    ELSE {<<>>, <<Coin("uusdc", 1)>>, <<Coin("uusdc", 2)>>}

AdminSenders ==
    IF scope = "positions" THEN {PerpsOwner, Stranger} ELSE {PerpsOwner}

OpenMsg(sender, funds, price, account_id, denom, size) ==
    [fn |-> "open_position", sender |-> sender, funds |-> funds,
     price |-> price, account_id |-> account_id, denom |-> denom,
     size |-> size]

\* The open_position messages: the credit manager's, long or short at
\* the oracle's 1.0, for each account; and messages with something wrong:
\* another sender, coins attached, no price at the oracle, a denom never
\* initialized, a size worth less than the minimum.
OpenMessages ==
    IF scope = "cooldown" THEN {}
    ELSE IF scope = "shares"
    THEN {OpenMsg(PerpsConfig.credit_manager, <<>>, Some(Dec(1, 1)), "1", PerpDenom, size) :
              size \in {Dec(1, 1), -Dec(1, 1)}}
    ELSE
    {OpenMsg(PerpsConfig.credit_manager, <<>>, Some(Dec(1, 1)), a, PerpDenom, size) :
         a \in AccountIds, size \in {Dec(1, 1), -Dec(1, 1)}}
    \cup {OpenMsg(Stranger, <<>>, Some(Dec(1, 1)), a, PerpDenom, Dec(1, 1)) :
              a \in AccountIds}
    \cup {OpenMsg(Stranger, <<Coin("uusdc", 1)>>, Some(Dec(1, 1)), "1", PerpDenom, Dec(1, 1)),
          OpenMsg(Stranger, <<>>, None, "1", PerpDenom, Dec(1, 1)),
          OpenMsg(PerpsConfig.credit_manager, <<Coin("uusdc", 1)>>, Some(Dec(1, 1)), "1", PerpDenom, Dec(1, 1)),
          OpenMsg(PerpsConfig.credit_manager, <<>>, None, "1", PerpDenom, Dec(1, 1)),
          OpenMsg(PerpsConfig.credit_manager, <<>>, Some(Dec(1, 1)), "1", UnknownPerpDenom, Dec(1, 1)),
          OpenMsg(PerpsConfig.credit_manager, <<>>, Some(Dec(1, 1)), "1", PerpDenom, Dec(1, 2))}

CloseMsg(sender, funds, price, account_id, denom) ==
    [fn |-> "close_position", sender |-> sender, funds |-> funds,
     price |-> price, account_id |-> account_id, denom |-> denom]

\* The close_position messages: the credit manager's, with or without a
\* coin of the base denom, at the oracle's 1.0 or 2.0, for each account;
\* and messages with something wrong: another sender, a coin of another
\* denom, no price at the oracle, a denom never initialized.
CloseMessages ==
    IF scope = "cooldown" THEN {}
    ELSE IF scope = "shares"
    THEN {CloseMsg(PerpsConfig.credit_manager, funds, Some(Dec(2, 1)), "1", PerpDenom) :
              funds \in {<<>>, <<Coin("uusdc", 1)>>}}
    ELSE
    {CloseMsg(PerpsConfig.credit_manager, funds, Some(price), a, PerpDenom) :
         funds \in {<<>>, <<Coin("uusdc", 1)>>},
         price \in {Dec(1, 1), Dec(2, 1)}, a \in AccountIds}
    \cup {CloseMsg(Stranger, <<>>, Some(Dec(1, 1)), a, PerpDenom) :
              a \in AccountIds}
    \cup {CloseMsg(Stranger, <<Coin("uosmo", 1)>>, Some(Dec(1, 1)), "1", PerpDenom),
          CloseMsg(PerpsConfig.credit_manager, <<Coin("uosmo", 1)>>, Some(Dec(1, 1)), "1", PerpDenom),
          CloseMsg(PerpsConfig.credit_manager, <<>>, None, "1", PerpDenom),
          CloseMsg(PerpsConfig.credit_manager, <<>>, Some(Dec(1, 1)), "1", UnknownPerpDenom)}

\* The shares of the vault the model lets exist.
MaxShares == 20000000

\* The storage stays within the bounds of the model; the unlocks pending
\* are counted over all depositors.
WithinBounds(state) ==
    /\ state.vault_state.total_liquidity <= MaxLiquidity
    /\ state.vault_state.total_shares <= MaxShares
    /\ Cardinality({<<d, i>> \in (DOMAIN state.unlocks) \X (1..(MaxUnlocks + 1)) : i <= Len(state.unlocks[d])}) <= MaxUnlocks

\* The message c is executed with outcome r: the storage and the response
\* of r, or the error of r and the storage as it was.
Executed(c, r) ==
    /\ r.ok => WithinBounds(r.v.state)
    /\ call' = c
    /\ ret' = IF r.ok THEN Ok(r.v.response) ELSE r
    /\ perps_contract' = IF r.ok THEN r.v.state ELSE perps_contract
    /\ UNCHANGED <<hc, account_nft, scope>>

\* The contract after initialize, for a run of the given scope.
InitPerps(run) ==
    /\ hc = NoSnapshot
    /\ call = NoCall
    /\ ret = NoRet
    /\ account_nft = NftInit
    /\ perps_contract = PerpsInit
    /\ scope = run

\* A block passes.
AdvanceTime ==
    /\ perps_contract.now < MaxTime
    /\ perps_contract' = [perps_contract EXCEPT !.now = @ + 1]
    /\ call' = NoCall
    /\ ret' = NoRet
    /\ UNCHANGED <<hc, account_nft, scope>>

InitDenom ==
    \E sender \in AdminSenders, skew_scale \in {0, Dec(1, 1)} :
        Executed([fn |-> "init_denom", sender |-> sender,
                  denom |-> PerpDenom, skew_scale |-> skew_scale],
                 perps_init_denom(perps_contract, sender, PerpDenom,
                                  skew_scale))

EnableDenom ==
    \E sender \in AdminSenders :
        Executed([fn |-> "enable_denom", sender |-> sender,
                  denom |-> PerpDenom],
                 perps_enable_denom(perps_contract, sender, PerpDenom))

DisableDenom ==
    \E sender \in AdminSenders :
        Executed([fn |-> "disable_denom", sender |-> sender,
                  denom |-> PerpDenom],
                 perps_disable_denom(perps_contract, sender, PerpDenom))

Deposit ==
    \E sender \in Depositors, funds \in DepositFunds :
        Executed([fn |-> "deposit", sender |-> sender, funds |-> funds],
                 perps_deposit(perps_contract, sender, funds))

\* The shares a depositor asks to unlock: one, all the depositor has, or
\* what the deposit just made minted.
UnlockShares(depositor) ==
    {1}
    \cup (IF depositor \in DOMAIN perps_contract.deposit_shares
          THEN {perps_contract.deposit_shares[depositor]} ELSE {})
    \cup (IF call.fn = "deposit" /\ ret.ok THEN {ret.v.shares} ELSE {})

Unlock ==
    \E depositor \in Depositors :
        \E shares \in UnlockShares(depositor) :
            Executed([fn |-> "unlock", depositor |-> depositor,
                      shares |-> shares],
                     perps_unlock(perps_contract, perps_contract.now,
                                  depositor, shares))

Withdraw ==
    \E depositor \in Depositors :
        Executed([fn |-> "withdraw", depositor |-> depositor],
                 perps_withdraw(perps_contract, perps_contract.now,
                                depositor))

OpenPosition ==
    \E m \in OpenMessages :
        Executed(m, perps_open_position(perps_contract, m.sender, m.funds,
                                        m.price, m.account_id, m.denom,
                                        m.size))

ClosePosition ==
    \E m \in CloseMessages :
        Executed(m, perps_close_position(perps_contract, m.sender, m.funds,
                                         m.price, m.account_id, m.denom))

\* The markets and the positions: the owner's and the traders' messages
\* over a vault with deposits.
NextPositions ==
    \/ InitDenom
    \/ EnableDenom
    \/ DisableDenom
    \/ Deposit
    \/ OpenPosition
    \/ ClosePosition

SpecPositions == InitPerps("positions") /\ [][NextPositions]_vars

\* The cooldown: the depositors' messages as the blocks pass.
NextCooldown ==
    \/ AdvanceTime
    \/ Deposit
    \/ Unlock
    \/ Withdraw

SpecCooldown == InitPerps("cooldown") /\ [][NextCooldown]_vars

\* The shares: deposits and unlocks while positions are realized against
\* the vault.
NextShares ==
    \/ InitDenom
    \/ EnableDenom
    \/ DisableDenom
    \/ Deposit
    \/ Unlock
    \/ Withdraw
    \/ OpenPosition
    \/ ClosePosition

SpecShares == InitPerps("shares") /\ [][NextShares]_vars

---------------------------------------------------------------------------
(* Properties of the max-action estimators *)

\* C1: on a snapshot whose max-LTV health factor is undefined or at least
\* one, taking max_withdraw_amount_estimate(denom) of the denom out of the
\* deposits first and the lends next leaves a snapshot whose max-LTV health
\* factor is undefined or at least one.  Stated for the accounts without
\* perp positions, where no perp term enters the estimate: the estimate
\* fails there already, by the rounding of price * max_ltv.
C1_WithdrawLeavesHealthy ==
    LET Healthy(r) ==
            /\ r.ok
            /\ \/ r.v.max_ltv_health_factor = None
               \/ r.v.max_ltv_health_factor[1] >= DecimalOne
        Less(coins, d, x) ==
            [i \in 1..Len(coins) |->
                IF coins[i].denom = d
                THEN [coins[i] EXCEPT !.amount = @ - x]
                ELSE coins[i]]
        FromDeposits(h, d, x) ==
            Min(x, FindAmountFrom(h.positions.deposits, d, 1))
        Withdrawn(h, d, x) ==
            [h EXCEPT
               !.positions.deposits = Less(@, d, FromDeposits(h, d, x)),
               !.positions.lends = Less(@, d, x - FromDeposits(h, d, x))]
    IN
    (/\ call.fn = "max_withdraw_amount_estimate"
     /\ ret.ok
     /\ hc.positions.perps = <<>>
     /\ Healthy(compute_health(hc)))
    => Healthy(compute_health(Withdrawn(hc, call.denom, ret.v)))

\* C2: on a snapshot whose max-LTV health factor is undefined or at least
\* one, adding max_borrow_amount_estimate(b, Wallet) of a whitelisted denom
\* b to the debts, the collateral unchanged, leaves a max-LTV health factor
\* of at least one (or an undefined one when nothing is borrowed).  The
\* snapshots that are unhealthy before the call, where the estimate is zero
\* and the account stays as it is, are left out.
C2_BorrowToWalletLeavesHealthy ==
    LET Healthy(r) ==
            /\ r.ok
            /\ \/ r.v.max_ltv_health_factor = None
               \/ r.v.max_ltv_health_factor[1] >= DecimalOne
        More(coins, d, x) ==
            IF x = 0 THEN coins
            ELSE IF \E i \in 1..Len(coins) : coins[i].denom = d
            THEN [i \in 1..Len(coins) |->
                     IF coins[i].denom = d
                     THEN [coins[i] EXCEPT !.amount = @ + x]
                     ELSE coins[i]]
            ELSE Append(coins, Coin(d, x))
        Borrowed(h, d, x) == [h EXCEPT !.positions.debts = More(@, d, x)]
        after == compute_health(Borrowed(hc, call.denom, ret.v))
    IN
    (/\ call.fn = "max_borrow_amount_estimate"
     /\ call.target.kind = "Wallet"
     /\ ret.ok
     /\ call.denom \in DOMAIN hc.asset_params
     /\ hc.asset_params[call.denom].whitelisted
     /\ Healthy(compute_health(hc)))
    => /\ Healthy(after)
       /\ after.v.max_ltv_health_factor = None => ret.v = 0

\* C3: on a snapshot whose max-LTV health factor is undefined or at least
\* one, adding max_borrow_amount_estimate(b, Deposit) of a whitelisted denom
\* b to the debts and to the deposits leaves a max-LTV health factor of at
\* least one (or an undefined one when nothing is borrowed).  Stated for the
\* accounts without perp positions: the estimate fails there already, by the
\* rounding of price * (1 - max_ltv).
C3_BorrowToDepositLeavesHealthy ==
    LET Healthy(r) ==
            /\ r.ok
            /\ \/ r.v.max_ltv_health_factor = None
               \/ r.v.max_ltv_health_factor[1] >= DecimalOne
        More(coins, d, x) ==
            IF x = 0 THEN coins
            ELSE IF \E i \in 1..Len(coins) : coins[i].denom = d
            THEN [i \in 1..Len(coins) |->
                     IF coins[i].denom = d
                     THEN [coins[i] EXCEPT !.amount = @ + x]
                     ELSE coins[i]]
            ELSE Append(coins, Coin(d, x))
        BorrowedAndDeposited(h, d, x) ==
            [h EXCEPT !.positions.debts = More(@, d, x),
                      !.positions.deposits = More(@, d, x)]
        after == compute_health(BorrowedAndDeposited(hc, call.denom, ret.v))
    IN
    (/\ call.fn = "max_borrow_amount_estimate"
     /\ call.target.kind = "Deposit"
     /\ ret.ok
     /\ hc.positions.perps = <<>>
     /\ call.denom \in DOMAIN hc.asset_params
     /\ hc.asset_params[call.denom].whitelisted
     /\ Healthy(compute_health(hc)))
    => /\ Healthy(after)
       /\ after.v.max_ltv_health_factor = None => ret.v = 0

\* C4: on a snapshot with spot debt or a perp position whose health factor
\* (RWA_max + perp_num) / (spot_debt + perp_den), taken with its sign, is
\* at most one, every estimator that comes to its health test returns
\* zero.  (max_withdraw_amount_estimate returns the whole balance of a
\* de-listed denom before that test, whatever the health: that return is
\* left out.)
C4_UnhealthyEstimatesZero ==
    LET v == estimator_values(hc) IN
    (/\ call.fn \in {"max_withdraw_amount_estimate",
                     "max_swap_amount_estimate",
                     "max_borrow_amount_estimate"}
     /\ ret.ok
     /\ ret.branch # "full_balance"
     /\ v.ok
     /\ hc.positions.perps # <<>> \/ v.v.debt_value > 0
     /\ v.v.debt_value + v.v.perp_denominator > 0
     /\ v.v.rwa + v.v.perp_numerator
            <= v.v.debt_value + v.v.perp_denominator)
    => ret.v = 0

\* C5: whenever an estimator comes to its formula with a negative numerator
\* RWA - spot_debt - perp_den + perp_num - 1, its answer is zero.
C5_NegativeNumeratorEstimatesZero ==
    LET v == estimator_values(hc) IN
    (/\ call.fn \in {"max_withdraw_amount_estimate",
                     "max_swap_amount_estimate",
                     "max_borrow_amount_estimate"}
     /\ ret.ok
     /\ ret.branch = "formula"
     /\ v.ok
     /\ v.v.rwa - v.v.debt_value - v.v.perp_denominator
            + v.v.perp_numerator - SignedOne < 0)
    => ret.v = 0

---------------------------------------------------------------------------
(* Properties of compute_health and of the valuation *)

\* C6: a successful compute_health returns both health factors as None if
\* and only if the spot debt value is zero and positions.perps is empty,
\* and both as Some otherwise.
C6_HealthFactorsNoneIff ==
    (call.fn = "compute_health" /\ ret.ok)
    => LET no_debt_no_perps ==
               /\ spot_debt_value(hc).v = 0
               /\ hc.positions.perps = <<>>
       IN /\ (ret.v.max_ltv_health_factor = None) <=> no_debt_no_perps
          /\ (ret.v.liquidation_health_factor = None) <=> no_debt_no_perps
          /\ Len(ret.v.max_ltv_health_factor) <= 1
          /\ Len(ret.v.liquidation_health_factor) <= 1

\* C6 happens: a debt of amount zero is held, and both factors are None.
C6_Witness ==
    /\ call.fn = "compute_health"
    /\ ret.ok
    /\ hc.positions.debts # <<>>
    /\ ret.v.max_ltv_health_factor = None
    /\ ret.v.liquidation_health_factor = None

\* C7 as stated: with no debts and no perps, max_withdraw_amount_estimate
\* returns the balance of the denom, deposits plus lends.
C7_FullBalanceWithoutDebt ==
    (/\ call.fn = "max_withdraw_amount_estimate"
     /\ hc.positions.debts = <<>>
     /\ hc.positions.perps = <<>>)
    => /\ ret.ok
       /\ ret.v = FindAmountFrom(hc.positions.deposits, call.denom, 1)
                  + FindAmountFrom(hc.positions.lends, call.denom, 1)

\* C7, amended: with no debts and no perps, max_withdraw_amount_estimate
\* returns the balance of the denom, deposits plus lends, unless the balance
\* is positive and the denom has no asset parameters: then it returns the
\* error MissingAssetParams.
C7_FullBalanceOrMissingParams ==
    (/\ call.fn = "max_withdraw_amount_estimate"
     /\ hc.positions.debts = <<>>
     /\ hc.positions.perps = <<>>)
    => LET balance ==
               FindAmountFrom(hc.positions.deposits, call.denom, 1)
               + FindAmountFrom(hc.positions.lends, call.denom, 1)
       IN IF balance > 0 /\ call.denom \notin DOMAIN hc.asset_params
          THEN ~ret.ok /\ ret.err = "MissingAssetParams"
          ELSE ret.ok /\ ret.v = balance

\* C7 happens: a denom both deposited and lent, returned in full.
C7_Witness ==
    /\ call.fn = "max_withdraw_amount_estimate"
    /\ hc.positions.debts = <<>>
    /\ hc.positions.perps = <<>>
    /\ FindAmountFrom(hc.positions.deposits, call.denom, 1) > 0
    /\ FindAmountFrom(hc.positions.lends, call.denom, 1) > 0
    /\ ret.ok
    /\ ret.v = FindAmountFrom(hc.positions.deposits, call.denom, 1)
               + FindAmountFrom(hc.positions.lends, call.denom, 1)

\* C8 as stated: the Health of a successful compute_health has
\* max_ltv_adjusted_collateral <= liquidation_threshold_adjusted_collateral
\* <= total_collateral_value.
C8_CollateralOrdering ==
    (call.fn = "compute_health" /\ ret.ok)
    => /\ ret.v.max_ltv_adjusted_collateral
              <= ret.v.liquidation_threshold_adjusted_collateral
       /\ ret.v.liquidation_threshold_adjusted_collateral
              <= ret.v.total_collateral_value

\* C8, amended: the ordering holds on the snapshots whose parameters in
\* force for the account kind have max LTV <= liquidation threshold <= 1,
\* for every asset and every vault.
C8_CollateralOrderingOrderedParams ==
    LET Ordered(p) ==
            IF hc.kind = "Default"
            THEN /\ p.max_loan_to_value <= p.liquidation_threshold
                 /\ p.liquidation_threshold <= DecimalOne
            ELSE /\ p.hls # None
                 /\ p.hls[1].max_loan_to_value
                        <= p.hls[1].liquidation_threshold
                 /\ p.hls[1].liquidation_threshold <= DecimalOne
    IN
    (/\ call.fn = "compute_health"
     /\ ret.ok
     /\ \A d \in DOMAIN hc.asset_params : Ordered(hc.asset_params[d])
     /\ \A a \in DOMAIN hc.vaults_data.vault_configs :
            Ordered(hc.vaults_data.vault_configs[a]))
    => /\ ret.v.max_ltv_adjusted_collateral
              <= ret.v.liquidation_threshold_adjusted_collateral
       /\ ret.v.liquidation_threshold_adjusted_collateral
              <= ret.v.total_collateral_value

\* C8 happens: deposits, lends and a vault held under ordered parameters of
\* an HLS account, the three totals strictly ordered.
C8_Witness ==
    /\ call.fn = "compute_health"
    /\ ret.ok
    /\ hc.kind = "HighLeveredStrategy"
    /\ hc.positions.deposits # <<>>
    /\ hc.positions.lends # <<>>
    /\ hc.positions.vaults # <<>>
    /\ \A d \in DOMAIN hc.asset_params :
           hc.asset_params[d].hls[1].max_loan_to_value
               <= hc.asset_params[d].hls[1].liquidation_threshold
    /\ ret.v.max_ltv_adjusted_collateral
           < ret.v.liquidation_threshold_adjusted_collateral
    /\ ret.v.liquidation_threshold_adjusted_collateral
           < ret.v.total_collateral_value

MaxDebtIncrease == 3

\* C10: of two snapshots that differ only in one debt amount, larger in the
\* second, the second's max_ltv_health_factor is at most the first's,
\* whenever compute_health defines both.
C10_DebtMonotonicity ==
    (/\ call.fn = "compute_health"
     /\ ret.ok
     /\ ret.v.max_ltv_health_factor # None)
    => \A i \in 1..Len(hc.positions.debts), k \in 1..MaxDebtIncrease :
           LET more == compute_health(
                           [hc EXCEPT !.positions.debts[i].amount = @ + k])
           IN (more.ok /\ more.v.max_ltv_health_factor # None)
              => more.v.max_ltv_health_factor[1]
                     <= ret.v.max_ltv_health_factor[1]

\* C10 happens: an account with a debt and a perp position whose health
\* factor strictly falls when the debt grows by one.
C10_Witness ==
    /\ call.fn = "compute_health"
    /\ ret.ok
    /\ ret.v.max_ltv_health_factor # None
    /\ hc.positions.debts # <<>>
    /\ hc.positions.perps # <<>>
    /\ LET more == compute_health(
                       [hc EXCEPT !.positions.debts[1].amount = @ + 1])
       IN /\ more.ok
          /\ more.v.max_ltv_health_factor # None
          /\ more.v.max_ltv_health_factor[1] < ret.v.max_ltv_health_factor[1]

----------------------------------------------------------------------------
(* Properties settled over the whole engine *)

\* The largest increase of a collateral amount that C11 compares.
MaxCollateralIncrease == 3

\* C11: of two snapshots that differ only in the amount of one whitelisted
\* deposit or lend, larger in the second, the second's
\* max_ltv_health_factor is at least the first's, whatever perp positions
\* the account holds, whenever compute_health defines both.
C11_CollateralMonotonicity ==
    LET AtLeast(more) ==
            (more.ok /\ more.v.max_ltv_health_factor # None)
            => more.v.max_ltv_health_factor[1]
                   >= ret.v.max_ltv_health_factor[1]
        Listed(c) ==
            /\ c.denom \in DOMAIN hc.asset_params
            /\ hc.asset_params[c.denom].whitelisted
    IN
    (/\ call.fn = "compute_health"
     /\ ret.ok
     /\ ret.v.max_ltv_health_factor # None)
    => \A k \in 1..MaxCollateralIncrease :
           /\ \A i \in 1..Len(hc.positions.deposits) :
                  Listed(hc.positions.deposits[i])
                  => AtLeast(compute_health(
                         [hc EXCEPT !.positions.deposits[i].amount = @ + k]))
           /\ \A i \in 1..Len(hc.positions.lends) :
                  Listed(hc.positions.lends[i])
                  => AtLeast(compute_health(
                         [hc EXCEPT !.positions.lends[i].amount = @ + k]))

\* C12: when liquidation_price(asset, Asset) computes a price for an asset
\* held with a non-zero deposits + lends balance, the snapshot with
\* oracle_prices[asset] replaced by that price has a max_ltv_health_factor
\* of one up to one unit of the scaled integer: the max-LTV adjusted
\* collateral and the debt value differ by at most 1.
C12_LiquidationPriceRoundTrip ==
    (/\ call.fn = "liquidation_price"
     /\ call.kind = "Asset"
     /\ ret.ok
     /\ ret.branch = "asset"
     /\ get_coin_from_deposits_and_lends(hc, call.denom).amount > 0)
    => LET at_price ==
               compute_health(
                   [hc EXCEPT !.oracle_prices[call.denom] =
                                  SignedFromUint(ret.v)])
       IN /\ at_price.ok
          /\ at_price.v.max_ltv_health_factor # None
          /\ \/ Abs(at_price.v.max_ltv_health_factor[1] - DecimalOne) <= 1
             \/ Abs(at_price.v.max_ltv_adjusted_collateral
                    - at_price.v.total_debt_value) <= 1

\* C13: whatever the snapshot and the arguments, no entry point panics:
\* every call ends with a result or with a typed HealthError.
C13_NoPanic ==
    (call # NoCall /\ ~ret.ok) => ret.err # "panic"

\* C14: when a denom of the deposits, the lends, the debts or a perp
\* position's base_denom has no oracle price or no asset parameters,
\* compute_health returns no Health but the error MissingPrice or
\* MissingAssetParams naming a denom without the price, respectively
\* without the parameters.
C14_MissingEntryIsTypedError ==
    LET DenomsOf(coins) == {coins[i].denom : i \in 1..Len(coins)}
        Consulted ==
            DenomsOf(hc.positions.deposits) \cup DenomsOf(hc.positions.lends)
            \cup DenomsOf(hc.positions.debts)
            \cup {hc.positions.perps[i].base_denom :
                     i \in 1..Len(hc.positions.perps)}
    IN
    (/\ call.fn = "compute_health"
     /\ \E d \in Consulted :
            d \notin DOMAIN hc.oracle_prices \/ d \notin DOMAIN hc.asset_params)
    => /\ ~ret.ok
       /\ \/ ret.err = "MissingPrice" /\ ret.on \notin DOMAIN hc.oracle_prices
          \/ /\ ret.err = "MissingAssetParams"
             /\ ret.on \notin DOMAIN hc.asset_params

\* C14, amended: when a denom of the deposits, the lends, the debts or a
\* perp position's base_denom has no oracle price, or a denom of the
\* deposits, the lends or a perp position's base_denom has no asset
\* parameters, compute_health returns no Health but the error MissingPrice
\* or MissingAssetParams naming a denom without the price, respectively
\* without the parameters.  The asset parameters of a debt's denom are not
\* consulted.
C14_MissingConsultedEntryIsTypedError ==
    LET DenomsOf(coins) == {coins[i].denom : i \in 1..Len(coins)}
        Collateral ==
            DenomsOf(hc.positions.deposits) \cup DenomsOf(hc.positions.lends)
            \cup {hc.positions.perps[i].base_denom :
                     i \in 1..Len(hc.positions.perps)}
        Priced == Collateral \cup DenomsOf(hc.positions.debts)
    IN
    (/\ call.fn = "compute_health"
     /\ \/ \E d \in Priced : d \notin DOMAIN hc.oracle_prices
        \/ \E d \in Collateral : d \notin DOMAIN hc.asset_params)
    => /\ ~ret.ok
       /\ \/ ret.err = "MissingPrice" /\ ret.on \notin DOMAIN hc.oracle_prices
          \/ /\ ret.err = "MissingAssetParams"
             /\ ret.on \notin DOMAIN hc.asset_params

\* C14 happens: an account whose only positions are debts, one of them in a
\* denom without a price, gets MissingPrice for that denom.
C14_Witness ==
    /\ call.fn = "compute_health"
    /\ hc.positions.deposits = <<>>
    /\ hc.positions.lends = <<>>
    /\ hc.positions.vaults = <<>>
    /\ hc.positions.perps = <<>>
    /\ \E i \in 1..Len(hc.positions.debts) :
           /\ hc.positions.debts[i].denom \notin DOMAIN hc.oracle_prices
           /\ ret = Err("MissingPrice", hc.positions.debts[i].denom)

\* C15: for a HighLeveredStrategy account every LTV and every liquidation
\* threshold that compute_health consults is the one of the hls
\* sub-record, the base denom's liquidation threshold applied to positive
\* perp funding included: the Health is that of the Default account whose
\* plain parameters are the hls ones.  For a Default account the plain
\* values are used: the Health does not depend on the hls sub-records.
C15_HlsParametersEverywhere ==
    LET FromHls(p) ==
            [p EXCEPT !.max_loan_to_value = p.hls[1].max_loan_to_value,
                      !.liquidation_threshold = p.hls[1].liquidation_threshold]
        WithoutHls(p) == [p EXCEPT !.hls = None]
        Rewritten(h, kind, F(_)) ==
            [h EXCEPT
               !.kind = kind,
               !.asset_params =
                   [d \in DOMAIN h.asset_params |-> F(h.asset_params[d])],
               !.vaults_data.vault_configs =
                   [a \in DOMAIN h.vaults_data.vault_configs |->
                       F(h.vaults_data.vault_configs[a])]]
    IN
    (call.fn = "compute_health" /\ ret.ok)
    => IF hc.kind = "HighLeveredStrategy"
       THEN ret = compute_health(Rewritten(hc, "Default", FromHls))
       ELSE ret = compute_health(Rewritten(hc, "Default", WithoutHls))

\* C16: a perp position of size zero adds nothing to the four accumulators
\* of perp_health_factor_values, whatever its prices and its accrued
\* funding: max_ltv_numerator, max_ltv_denominator, liq_ltv_numerator and
\* liq_ltv_denominator are those of the positions without it.
C16_ZeroSizeAddsNothing ==
    LET Without(s, i) == SubSeq(s, 1, i - 1) \o SubSeq(s, i + 1, Len(s))
        with == perp_health_factor_values(hc, hc.positions.perps)
    IN
    (call.fn = "compute_health" /\ ret.ok /\ with.ok)
    => \A i \in 1..Len(hc.positions.perps) :
           hc.positions.perps[i].size = 0
           => LET rest == perp_health_factor_values(
                              hc, Without(hc.positions.perps, i))
              IN /\ rest.ok
                 /\ with.v.max_ltv_numerator = rest.v.max_ltv_numerator
                 /\ with.v.max_ltv_denominator = rest.v.max_ltv_denominator
                 /\ with.v.liq_ltv_numerator = rest.v.liq_ltv_numerator
                 /\ with.v.liq_ltv_denominator = rest.v.liq_ltv_denominator

\* C16 happens: compute_health succeeds on an account holding a long and a
\* zero-size position with positive accrued funding and a profit, and the
\* accumulators are the non-zero ones of the long.
C16_Witness ==
    /\ call.fn = "compute_health"
    /\ ret.ok
    /\ Len(hc.positions.perps) = 2
    /\ hc.positions.perps[2].size = 0
    /\ hc.positions.perps[2].accrued_funding_amount > 0
    /\ hc.positions.perps[2].pnl.kind = "Profit"
    /\ LET with == perp_health_factor_values(hc, hc.positions.perps)
       IN /\ with.ok
          /\ with.v.max_ltv_numerator > 0
          /\ with.v.liq_ltv_denominator > 0
          /\ with.v.profit > hc.positions.perps[1].pnl.amount

\* C17: max_perp_size_estimate returns exactly zero whenever the open
\* interest leaves no room in the requested direction: the value of the
\* long open interest has reached max_long_oi_value (for Long), that of the
\* short open interest max_short_oi_value (for Short), or the value of the
\* net open interest has reached or exceeded max_net_oi_value.
C17_ZeroWhenOiExhausted ==
    (call.fn = "max_perp_size_estimate" /\ ret.ok)
    => LET params == hc.perps_data.params[call.denom]
           price == hc.oracle_prices[call.denom]
           long_oi_value == DecimalMul(call.long_oi_amount, price)
           short_oi_value == DecimalMul(call.short_oi_amount, price)
           exhausted ==
               \/ /\ call.direction = "Long"
                  /\ long_oi_value >= SignedFromUint(params.max_long_oi_value)
               \/ /\ call.direction = "Short"
                  /\ short_oi_value
                         >= SignedFromUint(params.max_short_oi_value)
               \/ Abs(long_oi_value - short_oi_value)
                      >= SignedFromUint(params.max_net_oi_value)
       IN exhausted => ret.v = 0

\* C17 happens: a long is asked for while the long open interest stands at
\* its cap and the net open interest below its own, on an account whose
\* collateral would otherwise allow a position; the estimate is zero.
C17_Witness ==
    /\ call.fn = "max_perp_size_estimate"
    /\ call.direction = "Long"
    /\ call.long_oi_amount = Dec(30, 1)
    /\ call.short_oi_amount = 0
    /\ hc.positions.deposits # <<>>
    /\ hc.positions.debts = <<>>
    /\ ret.ok
    /\ ret.v = 0
    /\ LET roomy == max_perp_size_estimate(hc, call.denom, call.base_denom,
                                           0, 0, call.direction)
       IN roomy.ok /\ roomy.v > 0

\* C18: for an account whose max_ltv_health_factor is above one,
\* max_swap_amount_estimate(from, to, Default, slippage) returns the full
\* deposits + lends balance of from whenever to_ltv * (1 - slippage) >=
\* from_ltv, the LTVs being the max LTVs in force, zero for a de-listed
\* asset; otherwise its result is at most that balance.
C18_SwapFullBalanceWithoutLtvLoss ==
    LET health == compute_health(hc)
        from_ltv == get_coin_max_ltv(hc, call.from_denom)
        to_ltv == get_coin_max_ltv(hc, call.to_denom)
        balance == get_coin_from_deposits_and_lends(hc, call.from_denom).amount
    IN
    (/\ call.fn = "max_swap_amount_estimate"
     /\ call.kind = "Default"
     /\ call.slippage <= DecimalOne
     /\ health.ok
     /\ health.v.max_ltv_health_factor # None
     /\ health.v.max_ltv_health_factor[1] > DecimalOne
     /\ from_ltv.ok
     /\ to_ltv.ok)
    => IF DecimalMul(to_ltv.v, DecimalOne - call.slippage) >= from_ltv.v
       THEN ret.ok /\ ret.v = balance
       ELSE ret.ok => ret.v <= balance

\* C18, amended: for an account whose max_ltv_health_factor is above one
\* and a from asset with an oracle price, max_swap_amount_estimate(from,
\* to, Default, slippage) with slippage <= 1 returns zero when the max LTV
\* in force of either asset is zero (a de-listed asset), the full deposits
\* + lends balance of from when both are non-zero and to_ltv * (1 -
\* slippage) >= from_ltv, and otherwise at most that balance.
C18_SwapFullBalanceOfListedAssets ==
    LET health == compute_health(hc)
        from_ltv == get_coin_max_ltv(hc, call.from_denom)
        to_ltv == get_coin_max_ltv(hc, call.to_denom)
        balance == get_coin_from_deposits_and_lends(hc, call.from_denom).amount
    IN
    (/\ call.fn = "max_swap_amount_estimate"
     /\ call.kind = "Default"
     /\ call.slippage <= DecimalOne
     /\ health.ok
     /\ health.v.max_ltv_health_factor # None
     /\ health.v.max_ltv_health_factor[1] > DecimalOne
     /\ from_ltv.ok
     /\ to_ltv.ok
     /\ call.from_denom \in DOMAIN hc.oracle_prices)
    => IF from_ltv.v = 0 \/ to_ltv.v = 0
       THEN ret.ok /\ ret.v = 0
       ELSE IF DecimalMul(to_ltv.v, DecimalOne - call.slippage) >= from_ltv.v
       THEN ret.ok /\ ret.v = balance
       ELSE ret.ok => ret.v <= balance

\* C18 happens: an indebted account above a health factor of one swaps a
\* held asset for one of a higher max LTV, both whitelisted, and gets its
\* full balance.
C18_Witness ==
    /\ call.fn = "max_swap_amount_estimate"
    /\ call.kind = "Default"
    /\ call.slippage > 0
    /\ call.slippage <= DecimalOne
    /\ spot_debt_value(hc).ok
    /\ spot_debt_value(hc).v > 0
    /\ compute_health(hc).ok
    /\ compute_health(hc).v.max_ltv_health_factor # None
    /\ compute_health(hc).v.max_ltv_health_factor[1] > DecimalOne
    /\ get_coin_max_ltv(hc, call.from_denom).ok
    /\ get_coin_max_ltv(hc, call.from_denom).v > 0
    /\ ret.ok
    /\ ret.branch = "no_ltv_loss"
    /\ ret.v > 0
    /\ ret.v = get_coin_from_deposits_and_lends(hc, call.from_denom).amount


\* C19: max_borrow_amount_estimate with BorrowTarget::Vault computes its
\* amount with the vault max LTV that vaults_value applies to the vault:
\* the account kind's max LTV of the vault, and zero when the vault or the
\* vault's base token is de-listed.
C19_BorrowVaultUsesGatedLtv ==
    (/\ call.fn = "max_borrow_amount_estimate"
     /\ call.target.kind = "Vault"
     /\ ret.ok
     /\ ret.branch = "formula"
     /\ hc.vaults_data.vault_values[call.target.address].base_coin_denom
            \in DOMAIN hc.asset_params)
    => LET config == hc.vaults_data.vault_configs[call.target.address]
           base_params ==
               hc.asset_params[
                   hc.vaults_data.vault_values[call.target.address]
                       .base_coin_denom]
           checked_vault_max_ltv ==
               IF ~(config.whitelisted /\ base_params.whitelisted) THEN 0
               ELSE IF hc.kind = "Default" THEN config.max_loan_to_value
               ELSE config.hls[1].max_loan_to_value
       IN ret.v = borrow_amount(call.denom, hc.oracle_prices[call.denom],
                                Some(checked_vault_max_ltv),
                                estimator_values(hc).v).v

\* C20: when the spot debt value is non-zero and at least the max-LTV
\* adjusted collateral, liquidation_price(denom, kind) returns the current
\* oracle price of denom unchanged, for the kinds Asset and Debt alike.
C20_UnderWaterReturnsCurrentPrice ==
    LET collateral == total_collateral_value(hc)
        debt == spot_debt_value(hc)
    IN
    (/\ call.fn = "liquidation_price"
     /\ collateral.ok
     /\ debt.ok
     /\ debt.v > 0
     /\ debt.v >= collateral.v.max_ltv_adjusted_collateral
     /\ call.denom \in DOMAIN hc.oracle_prices)
    => /\ ret.ok
       /\ SignedFromUint(ret.v) = hc.oracle_prices[call.denom]

----------------------------------------------------------------------------
(* Rounding, health factor definition and the perp size estimate *)

\* C21: a successful compute_health reports total_debt_value as the sum
\* over the debts of ceil(amount * price), total_collateral_value as the
\* sum over the deposits and the lends of floor(amount * price) plus, per
\* vault position, the vault coin value plus floor(unlocking * base price),
\* and each LTV-weighted total as the sum per item of floor(value * ltv).
C21_RoundingAgainstAccount ==
    LET Floor(x) == x \div DECIMAL_FRACTIONAL
        Ceil(x) == (x + DECIMAL_FRACTIONAL - 1) \div DECIMAL_FRACTIONAL
        Value(c) == Floor(c.amount * hc.oracle_prices[c.denom])
        Threshold(p) ==
            IF hc.kind = "Default" THEN p.liquidation_threshold
            ELSE p.hls[1].liquidation_threshold
        Ltv(p) ==
            IF hc.kind = "Default" THEN p.max_loan_to_value
            ELSE p.hls[1].max_loan_to_value
        CoinLtv(c) ==
            IF hc.asset_params[c.denom].whitelisted
            THEN Ltv(hc.asset_params[c.denom]) ELSE 0
        Base(v) ==
            Coin(hc.vaults_data.vault_values[v.address].base_coin_denom,
                 v.unlocking)
        VaultValue(v) ==
            hc.vaults_data.vault_values[v.address].vault_coin_value
        Config(v) == hc.vaults_data.vault_configs[v.address]
        VaultLtv(v) ==
            IF Config(v).whitelisted
               /\ hc.asset_params[Base(v).denom].whitelisted
            THEN Ltv(Config(v)) ELSE 0
        RECURSIVE Sum(_, _, _)
        Sum(s, F(_), i) == IF i > Len(s) THEN 0 ELSE F(s[i]) + Sum(s, F, i + 1)
        coins == hc.positions.deposits \o hc.positions.lends
        vaults == hc.positions.vaults
        DebtValue(c) == Ceil(c.amount * hc.oracle_prices[c.denom])
        CoinMaxLtv(c) == Floor(Value(c) * CoinLtv(c))
        CoinLiq(c) == Floor(Value(c) * Threshold(hc.asset_params[c.denom]))
        VaultTotal(v) == VaultValue(v) + Value(Base(v))
        VaultMaxLtv(v) ==
            Floor(VaultValue(v) * VaultLtv(v)) + CoinMaxLtv(Base(v))
        VaultLiq(v) ==
            Floor(VaultValue(v) * Threshold(Config(v))) + CoinLiq(Base(v))
    IN
    (call.fn = "compute_health" /\ ret.ok)
    => /\ ret.v.total_debt_value = Sum(hc.positions.debts, DebtValue, 1)
       /\ ret.v.total_collateral_value
              = Sum(coins, Value, 1) + Sum(vaults, VaultTotal, 1)
       /\ ret.v.max_ltv_adjusted_collateral
              = Sum(coins, CoinMaxLtv, 1) + Sum(vaults, VaultMaxLtv, 1)
       /\ ret.v.liquidation_threshold_adjusted_collateral
              = Sum(coins, CoinLiq, 1) + Sum(vaults, VaultLiq, 1)

\* C21 happens: a debt and a deposit whose exact values are not whole
\* numbers, held with a vault position that is unlocking; the debt is
\* reported above and the collateral below the exact values.
C21_Witness ==
    /\ call.fn = "compute_health"
    /\ ret.ok
    /\ hc.positions.vaults # <<>>
    /\ hc.positions.vaults[1].unlocking > 0
    /\ \E i \in 1..Len(hc.positions.debts) :
           LET c == hc.positions.debts[i]
           IN (c.amount * hc.oracle_prices[c.denom]) % DECIMAL_FRACTIONAL # 0
    /\ \E i \in 1..Len(hc.positions.lends) :
           LET c == hc.positions.lends[i]
           IN (c.amount * hc.oracle_prices[c.denom]) % DECIMAL_FRACTIONAL # 0
    /\ ret.v.total_debt_value > 0
    /\ ret.v.max_ltv_adjusted_collateral
           < ret.v.liquidation_threshold_adjusted_collateral

\* C22: when the spot debt value is non-zero or the account holds perp
\* positions, compute_health sets each health factor to floor(RWA + perp
\* numerator) / floor(spot debt + perp denominator), and returns a typed
\* divide-by-zero error and no Health when that denominator is zero.
C22_HealthFactorRatioOrDivideByZero ==
    LET collateral == total_collateral_value(hc)
        debt == spot_debt_value(hc)
        perp == perp_health_factor_values(hc, hc.positions.perps)
        Floor(x) == x \div DECIMAL_FRACTIONAL
        Ratio(n, d) == (Floor(n) * DECIMAL_FRACTIONAL) \div Floor(d)
    IN
    (/\ call.fn = "compute_health"
     /\ collateral.ok
     /\ debt.ok
     /\ perp.ok
     /\ debt.v # 0 \/ hc.positions.perps # <<>>)
    => LET max_ltv_numerator ==
               SignedFromUint(collateral.v.max_ltv_adjusted_collateral)
               + perp.v.max_ltv_numerator
           max_ltv_denominator ==
               SignedFromUint(debt.v) + perp.v.max_ltv_denominator
           liq_numerator ==
               SignedFromUint(
                   collateral.v.liquidation_threshold_adjusted_collateral)
               + perp.v.liq_ltv_numerator
           liq_denominator ==
               SignedFromUint(debt.v) + perp.v.liq_ltv_denominator
       IN IF Floor(max_ltv_denominator) = 0 \/ Floor(liq_denominator) = 0
          THEN ~ret.ok /\ ret.err = "DivideByZero"
          ELSE /\ ret.ok
               /\ ret.v.max_ltv_health_factor
                      = Some(Ratio(max_ltv_numerator, max_ltv_denominator))
               /\ ret.v.liquidation_health_factor
                      = Some(Ratio(liq_numerator, liq_denominator))


\* C29: whenever compute_health returns both health factors on a snapshot
\* whose assets, vault and perp market all have max LTV <= liquidation
\* threshold, in the default and in the HLS parameters, the max LTV health
\* factor is at most the liquidation health factor.
C29_MaxLtvFactorAtMostLiquidationFactor ==
    LET Ordered(p) ==
            /\ p.max_loan_to_value <= p.liquidation_threshold
            /\ p.hls # None
               => p.hls[1].max_loan_to_value <= p.hls[1].liquidation_threshold
        consistent ==
            /\ \A d \in DOMAIN hc.asset_params : Ordered(hc.asset_params[d])
            /\ \A a \in DOMAIN hc.vaults_data.vault_configs :
                   Ordered(hc.vaults_data.vault_configs[a])
            /\ \A d \in DOMAIN hc.perps_data.params :
                   hc.perps_data.params[d].max_loan_to_value
                       <= hc.perps_data.params[d].liquidation_threshold
    IN
    (/\ call.fn = "compute_health" /\ ret.ok /\ consistent
     /\ ret.v.max_ltv_health_factor # None
     /\ ret.v.liquidation_health_factor # None)
    => ret.v.max_ltv_health_factor[1] <= ret.v.liquidation_health_factor[1]


\* C30: whenever max_perp_size_estimate succeeds, the returned size is
\* >= 0 for Long and <= 0 for Short, and its magnitude is at most the
\* open interest the market has left in that direction.
C30_SizeSignedByDirectionWithinOi ==
    (call.fn = "max_perp_size_estimate" /\ ret.ok)
    => LET room == calculate_remaining_oi_value(call.long_oi_amount, call.short_oi_amount, Abs(hc.oracle_prices[call.denom]), hc.perps_data.params[call.denom], call.direction)
       IN /\ call.direction = "Long" => ret.v >= 0
          /\ call.direction = "Short" => ret.v <= 0
          /\ room.ok => Abs(ret.v) <= Abs(room.v)


---------------------------------------------------------------------------
(* The account NFT and the perps contract *)

\* C24: the n-th successful mint of the account NFT returns the token id
\* n as a decimal string, whatever token id the message carries, and
\* stores it with the owner of the message next to the tokens minted
\* before; the id is above every id minted before and none is used twice.
C24_MintAssignsNextId ==
    [][(call'.fn = "mint" /\ ret'.ok)
       => LET n == Cardinality(account_nft.tokens) + 1
              Decimal == <<"1", "2", "3", "4", "5", "6", "7", "8", "9", "10", "11", "12", "13", "14", "15">>
              Minted == {t.token_id : t \in account_nft.tokens}
          IN /\ ret'.v = Decimal[n]
             /\ Minted = {Decimal[i] : i \in 1..(n - 1)}
             /\ account_nft'.tokens = account_nft.tokens \cup {[token_id |-> Decimal[n], owner |-> call'.owner]}
             /\ Cardinality(account_nft'.tokens) = n]_vars

\* A tenth token minted by a message that carried another token id.
C24_Witness ==
    /\ call.fn = "mint" /\ ret.ok /\ ret.v = "10"
    /\ call.token_id = "2"
    /\ [token_id |-> "10", owner |-> call.owner] \in account_nft.tokens


\* C25 as stated: in the perps contract open_position on an (account_id,
\* denom) pair that already has a position fails with PositionExists and
\* leaves the positions and the denom states as they were.
C25_OpenOnExistingPairIsPositionExists ==
    [][(/\ call'.fn = "open_position"
        /\ <<call'.account_id, call'.denom>> \in DOMAIN perps_contract.positions)
       => (/\ ~ret'.ok /\ ret'.err = "PositionExists"
           /\ perps_contract'.positions = perps_contract.positions
           /\ perps_contract'.denom_states = perps_contract.denom_states)]_vars

\* C25, amended: open_position on a pair that already has a position
\* fails and leaves the positions and the denom states as they were, with
\* PositionExists when the message passes the tests made before (no coin
\* attached, a price at the oracle, the credit manager as sender, the
\* denom enabled, the size worth the minimum); a successful open stores
\* the position of a pair that had none and touches no other pair; a
\* successful close_position removes the position of its pair only, and
\* the credit manager's next open on the pair succeeds if the denom is
\* enabled.
C25_OnePositionPerPair ==
    [][LET pair == <<call'.account_id, call'.denom>>
           Others(positions) == [p \in DOMAIN positions \ {pair} |-> positions[p]]
       IN
       /\ (call'.fn = "open_position" /\ pair \in DOMAIN perps_contract.positions)
          => (/\ ~ret'.ok
              /\ perps_contract'.positions = perps_contract.positions
              /\ perps_contract'.denom_states = perps_contract.denom_states
              /\ (/\ call'.funds = <<>> /\ call'.price # None
                  /\ call'.sender = PerpsConfig.credit_manager
                  /\ perps_contract.denom_states[call'.denom].enabled
                  /\ to_uint_floor(SignedMul(Abs(call'.size), call'.price[1])) >= PerpsConfig.min_position_value)
                 => ret'.err = "PositionExists")
       /\ (call'.fn = "open_position" /\ ret'.ok)
          => (/\ pair \notin DOMAIN perps_contract.positions
              /\ pair \in DOMAIN perps_contract'.positions
              /\ perps_contract'.positions[pair].size = call'.size
              /\ Others(perps_contract'.positions) = perps_contract.positions)
       /\ (call'.fn = "close_position" /\ ret'.ok)
          => (/\ pair \in DOMAIN perps_contract.positions
              /\ perps_contract'.positions = Others(perps_contract.positions)
              /\ perps_contract'.denom_states[call'.denom].enabled
                 => perps_open_position(perps_contract', PerpsConfig.credit_manager, <<>>, Some(Dec(1, 1)), call'.account_id, call'.denom, Dec(1, 1)).ok)]_vars

\* The credit manager's open on a pair that has a position is refused
\* with PositionExists while the other account holds a position too.
C25_Witness ==
    /\ call.fn = "open_position" /\ ~ret.ok /\ ret.err = "PositionExists"
    /\ <<call.account_id, call.denom>> \in DOMAIN perps_contract.positions
    /\ Cardinality(DOMAIN perps_contract.positions) = 2


\* C26 as stated: an unlock made at time t has cooldown_end t plus the
\* cooldown period; withdraw at time now pays the depositor the sum of
\* the depositor's entries made at least a cooldown period before now,
\* removes those and keeps the others; when none has matured it fails
\* with UnlockedPositionsNotFound and changes nothing.
C26_WithdrawPaysMaturedUnlocksOnce ==
    [][LET d == call'.depositor
           now == perps_contract.now
           EntriesOf(unlocks) == IF d \in DOMAIN unlocks THEN unlocks[d] ELSE <<>>
           Matured(e) == e.created_at + CooldownPeriod <= now
           Pending(e) == ~Matured(e)
           RECURSIVE Sum(_)
           Sum(es) == IF es = <<>> THEN 0 ELSE Head(es).amount + Sum(Tail(es))
           ExceptOf(unlocks) == [x \in DOMAIN unlocks \ {d} |-> unlocks[x]]
       IN
       /\ (call'.fn = "unlock" /\ ret'.ok)
          => EntriesOf(perps_contract'.unlocks) = Append(EntriesOf(perps_contract.unlocks), [created_at |-> now, cooldown_end |-> now + CooldownPeriod, amount |-> ret'.v.amount])
       /\ call'.fn = "withdraw"
          => IF SelectSeq(EntriesOf(perps_contract.unlocks), Matured) = <<>>
             THEN /\ ~ret'.ok /\ ret'.err = "UnlockedPositionsNotFound"
                  /\ perps_contract' = perps_contract
             ELSE /\ ret'.ok
                  /\ ret'.v.to_address = d
                  /\ ret'.v.amount = Sum(SelectSeq(EntriesOf(perps_contract.unlocks), Matured))
                  /\ EntriesOf(perps_contract'.unlocks) = SelectSeq(EntriesOf(perps_contract.unlocks), Pending)
                  /\ ExceptOf(perps_contract'.unlocks) = ExceptOf(perps_contract.unlocks)
                  /\ perps_contract'.vault_state = perps_contract.vault_state
                  /\ perps_contract'.deposit_shares = perps_contract.deposit_shares]_vars

\* C26, amended: as C26 but the error of a withdraw on which nothing has
\* matured is UnlockedPositionsNotFound when the depositor has unlocks
\* pending, and the storage's not-found error when the depositor has no
\* unlock at all.
C26_WithdrawPaysMaturedUnlocksOrFails ==
    [][LET d == call'.depositor
           now == perps_contract.now
           EntriesOf(unlocks) == IF d \in DOMAIN unlocks THEN unlocks[d] ELSE <<>>
           Matured(e) == e.created_at + CooldownPeriod <= now
           Pending(e) == ~Matured(e)
           RECURSIVE Sum(_)
           Sum(es) == IF es = <<>> THEN 0 ELSE Head(es).amount + Sum(Tail(es))
           ExceptOf(unlocks) == [x \in DOMAIN unlocks \ {d} |-> unlocks[x]]
       IN
       /\ (call'.fn = "unlock" /\ ret'.ok)
          => EntriesOf(perps_contract'.unlocks) = Append(EntriesOf(perps_contract.unlocks), [created_at |-> now, cooldown_end |-> now + CooldownPeriod, amount |-> ret'.v.amount])
       /\ call'.fn = "withdraw"
          => IF SelectSeq(EntriesOf(perps_contract.unlocks), Matured) = <<>>
             THEN /\ ~ret'.ok
                  /\ ret'.err = IF EntriesOf(perps_contract.unlocks) = <<>> THEN "NotFound" ELSE "UnlockedPositionsNotFound"
                  /\ perps_contract' = perps_contract
             ELSE /\ ret'.ok
                  /\ ret'.v.to_address = d
                  /\ ret'.v.amount = Sum(SelectSeq(EntriesOf(perps_contract.unlocks), Matured))
                  /\ EntriesOf(perps_contract'.unlocks) = SelectSeq(EntriesOf(perps_contract.unlocks), Pending)
                  /\ ExceptOf(perps_contract'.unlocks) = ExceptOf(perps_contract.unlocks)
                  /\ perps_contract'.vault_state = perps_contract.vault_state
                  /\ perps_contract'.deposit_shares = perps_contract.deposit_shares]_vars

\* A withdraw that paid a matured unlock and kept one still cooling down.
C26_Witness ==
    /\ call.fn = "withdraw" /\ ret.ok /\ ret.v.amount > 0
    /\ call.depositor \in DOMAIN perps_contract.unlocks
    /\ \A i \in 1..Len(perps_contract.unlocks[call.depositor]) : perps_contract.unlocks[call.depositor][i].cooldown_end > perps_contract.now


\* C27 as stated: open_position and close_position succeed only for the
\* credit manager; from any other sender they fail with
\* SenderIsNotCreditManager and leave positions, denom states and vault
\* state as they were; open_position on a denom that is not enabled fails
\* and changes nothing.
C27_OtherSenderIsNotCreditManager ==
    [][LET trade == call'.fn \in {"open_position", "close_position"}
           unchanged == /\ perps_contract'.positions = perps_contract.positions
                        /\ perps_contract'.denom_states = perps_contract.denom_states
                        /\ perps_contract'.vault_state = perps_contract.vault_state
       IN
       /\ (trade /\ ret'.ok) => call'.sender = PerpsConfig.credit_manager
       /\ (trade /\ call'.sender # PerpsConfig.credit_manager)
          => (~ret'.ok /\ ret'.err = "SenderIsNotCreditManager" /\ unchanged)
       /\ (/\ call'.fn = "open_position"
           /\ call'.denom \in DOMAIN perps_contract.denom_states
           /\ ~perps_contract.denom_states[call'.denom].enabled)
          => (~ret'.ok /\ unchanged)]_vars

\* C27, amended: as C27, but the error of another sender's call is
\* SenderIsNotCreditManager only when the call passes the tests made
\* before the test of the sender: for open_position no coin attached and
\* a price at the oracle; for close_position a denom state and a position
\* stored for the pair and no coin of another denom attached. In every
\* case the call fails and changes nothing.
C27_OnlyCreditManagerTrades ==
    [][LET trade == call'.fn \in {"open_position", "close_position"}
           unchanged == /\ perps_contract'.positions = perps_contract.positions
                        /\ perps_contract'.denom_states = perps_contract.denom_states
                        /\ perps_contract'.vault_state = perps_contract.vault_state
           reaches_sender_test ==
               IF call'.fn = "open_position"
               THEN call'.funds = <<>> /\ call'.price # None
               ELSE /\ call'.denom \in DOMAIN perps_contract.denom_states
                    /\ <<call'.account_id, call'.denom>> \in DOMAIN perps_contract.positions
                    /\ \A i \in 1..Len(call'.funds) : call'.funds[i].denom = PerpsConfig.base_denom
       IN
       /\ (trade /\ ret'.ok) => call'.sender = PerpsConfig.credit_manager
       /\ (trade /\ call'.sender # PerpsConfig.credit_manager)
          => (/\ ~ret'.ok /\ unchanged
              /\ reaches_sender_test => ret'.err = "SenderIsNotCreditManager"
              /\ ~reaches_sender_test => ret'.err # "SenderIsNotCreditManager")
       /\ (/\ call'.fn = "open_position"
           /\ call'.denom \in DOMAIN perps_contract.denom_states
           /\ ~perps_contract.denom_states[call'.denom].enabled)
          => (/\ ~ret'.ok /\ unchanged
              /\ (reaches_sender_test /\ call'.sender = PerpsConfig.credit_manager)
                 => ret'.err = "DenomNotEnabled")]_vars

\* Another sender's close of a position that exists, on a denom the owner
\* has disabled, is refused with SenderIsNotCreditManager.
C27_Witness ==
    /\ call.fn = "close_position" /\ call.sender # PerpsConfig.credit_manager
    /\ ~ret.ok /\ ret.err = "SenderIsNotCreditManager"
    /\ <<call.account_id, call.denom>> \in DOMAIN perps_contract.positions
    /\ ~perps_contract.denom_states[call.denom].enabled


\* C28: in the perps vault a deposit into a vault without shares mints
\* amount * 1,000,000 shares and any later deposit mints
\* floor(total_shares * amount / total_liquidity) shares; and unlocking
\* the shares a deposit of amount a has just minted gives an amount of at
\* most a.
C28_DepositUnlockRoundTrip ==
    [][/\ (call'.fn = "deposit" /\ ret'.ok)
          => (/\ ret'.v.amount = call'.funds[1].amount
              /\ ret'.v.shares =
                     IF perps_contract.vault_state.total_shares = 0
                     THEN ret'.v.amount * 1000000
                     ELSE (perps_contract.vault_state.total_shares * ret'.v.amount) \div perps_contract.vault_state.total_liquidity
              /\ perps_contract'.vault_state.total_shares = perps_contract.vault_state.total_shares + ret'.v.shares
              /\ perps_contract'.vault_state.total_liquidity = perps_contract.vault_state.total_liquidity + ret'.v.amount)
       /\ (/\ call.fn = "deposit" /\ ret.ok
           /\ call'.fn = "unlock" /\ call'.depositor = call.sender
           /\ call'.shares = ret.v.shares /\ ret'.ok)
          => ret'.v.amount <= ret.v.amount]_vars

=============================================================================
